---- MODULE Spec2Model ----
(***************************************************************************)
(* A model of the MetaRec front-end: the Chat component's task polling,    *)
(* the ProcessingView it renders as the placeholder of a task, the         *)
(* persistence of recommendation results (Chat.tsx), and the OpenAPI       *)
(* schema resolver of the debug page (DebugPage, src/unnamed/part_000).    *)
(*                                                                         *)
(* The browser runs one event loop: every handler, timer callback and      *)
(* promise continuation runs to its next await without interleaving.  One  *)
(* action is one such run.  React's commit of the state a handler sets,    *)
(* and the effects and effect clean-ups that commit triggers, are taken    *)
(* as part of the action that sets the state.                              *)
(***************************************************************************)
EXTENDS Integers, Sequences, FiniteSets, TLC

(***************************************************************************)
(* Bounds of the model.                                                    *)
(***************************************************************************)
MaxTasks == 1
MaxMsgs == 5
MaxInflight == 2
MaxPvInflight == 1
MaxSaves == 2
MaxTurns == 1
MaxClock == 1
CountCap == 2
MaxCalls == 3
MaxListLen == 2
MaxAllOf == 2
StackLimit == 12
MaxParams == 1
MaxConversations == 2
MaxHistory == 2
MaxOverlap == 2

Tasks == 1..MaxTasks
NoTask == 0
Timestamps == 0..MaxClock

Min(a, b) == IF a < b THEN a ELSE b
Bump(c) == Min(c + 1, CountCap)

(***************************************************************************)
(* Restaurants and recommendation results (types.ts).  A result carries a  *)
(* list of restaurants; the field "has" is FALSE for a status that carries *)
(* no result at all (TaskStatus.result is optional).                       *)
(***************************************************************************)
Restaurant(id, name) == [id |-> id, name |-> name]
Ra == Restaurant("a", "x")
Rb == Restaurant("b", "y")
Rn == Restaurant("", "a")

NoResult == [has |-> FALSE, list |-> <<>>]
Result(list) == [has |-> TRUE, list |-> list]

\* The results the backend answers with in the chat model.
TaskResultLists == {<<>>, <<Ra>>}

\* JavaScript's default sort orders strings by code unit.
Rank(s) ==
  CASE s = "" -> 0
    [] s = "a" -> 1
    [] s = "b" -> 2
    [] s = "x" -> 3
    [] s = "y" -> 4
    [] OTHER -> 5

RECURSIVE Insert(_, _)
Insert(s, sorted) ==
  IF sorted = <<>> THEN <<s>>
  ELSE IF Rank(s) <= Rank(Head(sorted)) THEN <<s>> \o sorted
  ELSE <<Head(sorted)>> \o Insert(s, Tail(sorted))

RECURSIVE SortStrings(_)
SortStrings(xs) ==
  IF xs = <<>> THEN <<>> ELSE Insert(Head(xs), SortStrings(Tail(xs)))

RECURSIVE Join(_)
Join(xs) ==
  IF xs = <<>> THEN ""
  ELSE IF Len(xs) = 1 THEN xs[1]
  ELSE xs[1] \o "," \o Join(Tail(xs))

\* r.id || r.name
RestaurantKey(r) == IF r.id # "" THEN r.id ELSE r.name

RestaurantKeys(list) == [i \in 1..Len(list) |-> RestaurantKey(list[i])]

\* A faulty variant of ResultId that joins the identifiers without sorting
\* them: C2 must fail with it.
ResultIdUnsorted(list, ts) ==
  IF Len(list) > 0
    THEN Join(RestaurantKeys(list))
    ELSE "empty-" \o ToString(ts)

\* resultId of saveRecommendationResult; ts is the value of Date.now().
ResultId(list, ts) ==
  IF Len(list) > 0
    THEN Join(SortStrings(RestaurantKeys(list)))
    ELSE "empty-" \o ToString(ts)

(***************************************************************************)
(* Messages.  Every message is a record of the same shape.  kind names     *)
(* what the content renders: "text", "welcome", "confirm", "pv" (a         *)
(* ProcessingView of task), "results" (a ResultsView of res), "taskError"  *)
(* (the error rendering of a task) and "sendError" (a failed turn).  For a *)
(* ProcessingView, st, stTask and res are the component's own status       *)
(* state: the status of the last response it applied, the task that        *)
(* response was about, and the result it carried.                          *)
(***************************************************************************)
Msg(role, kind, task, st, stTask, res) ==
  [role |-> role, kind |-> kind, task |-> task, st |-> st, stTask |-> stTask, res |-> res]

WELCOME_MESSAGE == Msg("assistant", "welcome", NoTask, "none", NoTask, NoResult)
UserMsg == Msg("user", "text", NoTask, "none", NoTask, NoResult)
TextMsg == Msg("assistant", "text", NoTask, "none", NoTask, NoResult)
ConfirmMsg == Msg("assistant", "confirm", NoTask, "none", NoTask, NoResult)
\* A confirmation request in the guidance case: the message with the
\* preferences, which can be confirmed (onPreferenceConfirm given) or only
\* viewed.
GuidanceMsg == Msg("assistant", "guidance", NoTask, "none", NoTask, NoResult)
GuidanceViewMsg == Msg("assistant", "guidanceView", NoTask, "none", NoTask, NoResult)
\* llm_reply shown with the preferences (handleNotSatisfied).
ReplyGuidanceMsg == Msg("assistant", "replyGuidance", NoTask, "none", NoTask, NoResult)
SendErrorMsg == Msg("assistant", "sendError", NoTask, "none", NoTask, NoResult)
ProcessingViewMsg(t) == Msg("assistant", "pv", t, "none", NoTask, NoResult)

\* {...lastMessage, content: ...}: the role is kept, the content replaced.
WithResults(m, res) == Msg(m.role, "results", NoTask, "none", NoTask, res)
WithTaskError(m) == Msg(m.role, "taskError", NoTask, "none", NoTask, NoResult)
WithText(m) == Msg(m.role, "text", NoTask, "none", NoTask, NoResult)
\* A ProcessingView element where one already is keeps the mounted
\* component and its state, and only changes its props.
WithProcessingView(m, t) ==
  IF m.kind = "pv" THEN [m EXCEPT !.task = t]
  ELSE Msg(m.role, "pv", t, "none", NoTask, NoResult)

Terminal(st) == st \in {"completed", "error"}

(***************************************************************************)
(* Requests in flight.  A slot holds one outstanding request together with *)
(* the response the network will deliver for it.                           *)
(***************************************************************************)
EmptyPoll == [task |-> NoTask, st |-> "empty", res |-> NoResult]
EmptyPvPoll == [idx |-> 0, task |-> NoTask, st |-> "empty", res |-> NoResult]
EmptyAdd == [used |-> FALSE, fp |-> "", origin |-> NoTask, list |-> <<>>]

VARIABLES
  mounted,                 \* the Chat component is mounted
  canPersist,              \* conversationId && userId && onMessageAdded
  messages,                \* Chat state: messages
  currentTaskId,           \* Chat state: currentTaskId (NoTask for null)
  taskStatus,              \* Chat state: taskStatus
  loading,                 \* Chat state: loading
  userSaving,              \* onSend calls awaiting saveUserMessage
  recommending,            \* onSend calls awaiting recommend
  streaming,               \* onSend calls awaiting recommendStream
  chatInflight,            \* getTaskStatus requests of Chat's polling loop
  pvInflight,              \* getTaskStatus requests of ProcessingViews
  addInflight,             \* addMessage requests of saveRecommendationResult
  savedRecommendationIds,  \* the ref's set of saved fingerprints
  taskSt,                  \* backend: status of each task
  taskRes,                 \* backend: result of each completed task
  placeholderIdx,          \* history: where handleTaskCreated put the placeholder
  chatTerminal,            \* history: Chat's loop applied a terminal status of the task
  onCompleteCalls,         \* history: calls of onComplete per task (capped)
  addCalls,                \* history: addMessage requests per task's result (capped)
  persisted,               \* history: the restaurant lists for which addMessage resolved and
                           \* onMessageAdded was called
  lastSave,                \* history: number and argument of the direct calls of saveRecommendationResult
  doc,                     \* the OpenAPI document given to the resolver
  fragment,                \* the schema fragment given to the resolver
  resolved,                \* what resolveSchema returned for it
  keyOrder,                \* the insertion order of the keys of the document's paths and
                           \* of a request body's content map
  operations,              \* what buildApiOperations returned for the document
  composite,               \* what buildApiInputCompositeSchema returned for an operation
  floatingConfirmation,    \* Chat state: floatingConfirmation is not null
  conversationId,          \* Chat prop: conversationId (NoConversation for null)
  handlerTurn,             \* the call of a confirmation handler or of handlePreferenceConfirm
                           \* that is awaiting saveUserMessage or recommend
  historyInflight,         \* getConversation requests of the history effect
  reply,                   \* a reply of recommend
  dispatched,              \* history: the entry point that handled reply and the branch it took
  response,                \* debugFetch: what fetch settled with
  settled,                 \* debugFetch: how the call ended
  selectedApiOp,           \* playground: the operation selected in the catalogue
  apiPathParamsText,       \* playground: the text of the path-params editor
  apiQueryParamsText,      \* playground: the text of the query-params editor
  apiBodyText,             \* playground: the text of the body editor
  apiPlaygroundError,      \* playground: the local error
  apiResult,               \* playground: the result of the last run
  apiRunning,              \* playground: the running flag
  apiInflight,             \* playground: the request fetch has sent and not settled
  authed,                  \* debug page: the session is authenticated
  runs,                    \* debug page: the list of runs
  units,                   \* debug page: the unit specs
  selectedRunId,           \* debug page: the id of the selected run, or NoRunId
  selectedRun,             \* debug page: the detail of the run last fetched, or NoRun
  runLoading,              \* debug page: the loading flag of the run panel
  runError,                \* debug page: the error of the run panel
  explainLoading,          \* debug page: the loading flag of the explain button
  loads,                   \* debug page: the calls of load() whose request has not settled
  fetchSeq,                \* history: the number of calls of load(), modulo SeqMod
  explainInflight,         \* debug page: the call of runExplain that has not ended
  runsInflight,            \* debug page: listDebugRuns requests, by the caller of refreshRuns
  unitsInflight,           \* debug page: listDebugUnits requests
  logoutInflight,          \* debug page: debugLogout has not settled
  serverDone               \* backend: the runs that have finished

chatVars == <<mounted, canPersist, messages, currentTaskId, taskStatus, loading,
              userSaving, recommending, streaming, chatInflight, pvInflight,
              addInflight, savedRecommendationIds, taskSt, taskRes,
              placeholderIdx, chatTerminal, onCompleteCalls, addCalls,
              persisted>>

resolverVars == <<doc, fragment, resolved>>

apiVars == <<keyOrder, operations, composite>>

fetchVars == <<response, settled>>

playVars == <<selectedApiOp, apiPathParamsText, apiQueryParamsText, apiBodyText,
              apiPlaygroundError, apiResult, apiRunning, apiInflight>>

pageVars == <<authed, runs, units, selectedRunId, selectedRun, runLoading, runError,
              explainLoading, loads, fetchSeq, explainInflight, runsInflight,
              unitsInflight, logoutInflight, serverDone>>

debugVars == <<fetchVars, playVars, pageVars>>

dialogueVars == <<floatingConfirmation, conversationId, handlerTurn, historyInflight,
                  reply, dispatched>>

\* What a reply of recommend leaves alone in every entry point.
replyUnchanged == <<lastSave, debugVars, resolverVars, apiVars, conversationId, handlerTurn,
                    historyInflight, reply, dispatched>>

\* What the actions of the chat leave alone.
otherVars == <<lastSave, debugVars, resolverVars, apiVars, dialogueVars>>

vars == <<chatVars, lastSave, debugVars, resolverVars, apiVars, dialogueVars>>

\* The state of the debug page's API catalogue before anything is built.
NoOrder == [paths |-> <<>>, content |-> <<>>]
NotBuilt == [done |-> FALSE]
ApiIdle == keyOrder = NoOrder /\ operations = NotBuilt /\ composite = NotBuilt

\* The state of the dialogue before any confirmation was asked for, with
\* no history request in flight.
NoConversation == 0
ConversationIds == 1..MaxConversations
NoTurn == [entry |-> "none", phase |-> "idle"]
NoReply == [given |-> FALSE]
NotDispatched == [done |-> FALSE]
NoHistory == [s \in 1..MaxHistory |-> NoConversation]
DialogueIdle ==
  /\ floatingConfirmation = FALSE
  /\ conversationId = IF canPersist THEN 1 ELSE NoConversation
  /\ handlerTurn = NoTurn
  /\ historyInflight = NoHistory
  /\ reply = NoReply
  /\ dispatched = NotDispatched

\* The state of the debug page before anything was requested.
NoResponse == [given |-> FALSE]
NotSettled == [done |-> FALSE]
FetchIdle == response = NoResponse /\ settled = NotSettled
NoOperation == [sel |-> FALSE, requestContentType |-> "", requestBodySchema |-> [k |-> "null"],
                pathParams |-> <<>>]
NoError == [set |-> FALSE]
NoApiResult == [has |-> FALSE]
NoRequest == [sent |-> FALSE]
EmptyObjectText == <<[t |-> "punct", v |-> "{"], [t |-> "punct", v |-> "}"]>>
PlayIdle ==
  /\ selectedApiOp = NoOperation
  /\ apiPathParamsText = EmptyObjectText
  /\ apiQueryParamsText = EmptyObjectText
  /\ apiBodyText = EmptyObjectText
  /\ apiPlaygroundError = NoError
  /\ apiResult = NoApiResult
  /\ apiRunning = FALSE
  /\ apiInflight = NoRequest
NoRunId == 0
NoRun == [has |-> FALSE]
NoExplain == [run |-> NoRunId, phase |-> "idle"]
NoRefresh == [effect |-> 0, login |-> 0]
PageIdle ==
  /\ authed = FALSE
  /\ runs = <<>>
  /\ units = {}
  /\ selectedRunId = NoRunId
  /\ selectedRun = NoRun
  /\ runLoading = FALSE
  /\ runError = NoError
  /\ explainLoading = FALSE
  /\ loads = <<>>
  /\ fetchSeq = 0
  /\ explainInflight = NoExplain
  /\ runsInflight = NoRefresh
  /\ unitsInflight = 0
  /\ logoutInflight = FALSE
  /\ serverDone = {}
DebugIdle == FetchIdle /\ PlayIdle /\ PageIdle

NullStatus == [task |-> NoTask, st |-> "null"]

ChatInit ==
  /\ mounted = TRUE
  /\ canPersist \in BOOLEAN
  /\ messages = <<WELCOME_MESSAGE>>
  /\ currentTaskId = NoTask
  /\ taskStatus = NullStatus
  /\ loading = FALSE
  /\ userSaving = 0
  /\ recommending = 0
  /\ streaming = 0
  /\ chatInflight = [s \in 1..MaxInflight |-> EmptyPoll]
  /\ pvInflight = [s \in 1..MaxPvInflight |-> EmptyPvPoll]
  /\ addInflight = [s \in 1..MaxSaves |-> EmptyAdd]
  /\ savedRecommendationIds = {}
  /\ taskSt = [t \in Tasks |-> "absent"]
  /\ taskRes = [t \in Tasks |-> NoResult]
  /\ placeholderIdx = [t \in Tasks |-> 0]
  /\ chatTerminal = [t \in Tasks |-> FALSE]
  /\ onCompleteCalls = [t \in Tasks |-> 0]
  /\ addCalls = [t \in Tasks |-> 0]
  /\ persisted = {}

(***************************************************************************)
(* Helpers on slots.                                                       *)
(***************************************************************************)
HasFree(slots, empty) == \E s \in DOMAIN slots : slots[s] = empty

FirstFree(slots, empty) ==
  CHOOSE s \in DOMAIN slots :
    /\ slots[s] = empty
    /\ \A u \in DOMAIN slots : u < s => slots[u] # empty

\* A ProcessingView that is no longer rendered is unmounted: the responses
\* of its outstanding requests set the state of an unmounted component,
\* which React ignores.
DropUnmounted(slots, msgs) ==
  [s \in DOMAIN slots |->
     IF slots[s].idx # 0 /\ msgs[slots[s].idx].kind # "pv"
       THEN EmptyPvPoll ELSE slots[s]]

(***************************************************************************)
(* The backend.  A request is answered with the task's status when it is   *)
(* sent; the network delivers the response at any later time, so the       *)
(* responses of overlapping requests arrive in any order.  A request may   *)
(* also fail (network error, unparsable body): getTaskStatus then throws.  *)
(***************************************************************************)
BackendStatus(t) ==
  [st |-> taskSt[t], res |-> IF taskSt[t] = "completed" THEN taskRes[t] ELSE NoResult]

PollOutcomes(t) ==
  {[st |-> "failed", res |-> NoResult]} \cup
  (IF taskSt[t] = "absent" THEN {} ELSE {BackendStatus(t)})

BackendComplete(t, res) ==
  /\ taskSt[t] = "processing"
  /\ taskSt' = [taskSt EXCEPT ![t] = "completed"]
  /\ taskRes' = [taskRes EXCEPT ![t] = res]
  /\ UNCHANGED <<otherVars, persisted, mounted, canPersist, messages, currentTaskId, taskStatus, loading,
                 userSaving, recommending, streaming, chatInflight, pvInflight,
                 addInflight, savedRecommendationIds, placeholderIdx, chatTerminal,
                 onCompleteCalls, addCalls>>

BackendError(t) ==
  /\ taskSt[t] = "processing"
  /\ taskSt' = [taskSt EXCEPT ![t] = "error"]
  /\ UNCHANGED <<otherVars, persisted, mounted, canPersist, messages, currentTaskId, taskStatus, loading,
                 userSaving, recommending, streaming, chatInflight, pvInflight,
                 addInflight, savedRecommendationIds, taskRes, placeholderIdx,
                 chatTerminal, onCompleteCalls, addCalls>>

(***************************************************************************)
(* saveRecommendationResult, up to its await of addMessage: the guard on   *)
(* the props, the fingerprint, the check of the saved set, and the         *)
(* addMessage request.  origin is the task the result is of (NoTask for a  *)
(* result the backend returned directly) and serves the history only.      *)
(***************************************************************************)
NoSave == UNCHANGED <<addInflight, addCalls>>

saveRecommendationResult(res, origin, ts) ==
  IF ~canPersist THEN NoSave
  ELSE LET resultId == ResultId(res.list, ts) IN
    IF resultId \in savedRecommendationIds THEN NoSave
    ELSE /\ HasFree(addInflight, EmptyAdd)
         /\ addInflight' = [addInflight EXCEPT ![FirstFree(addInflight, EmptyAdd)] =
              [used |-> TRUE, fp |-> resultId, origin |-> origin, list |-> res.list]]
         /\ addCalls' = IF origin = NoTask THEN addCalls
                        ELSE [addCalls EXCEPT ![origin] = Bump(@)]

\* addMessage resolved: onMessageAdded is called and the fingerprint added.
AddMessageOk(s) ==
  /\ addInflight[s].used
  /\ addInflight' = [addInflight EXCEPT ![s] = EmptyAdd]
  /\ savedRecommendationIds' = savedRecommendationIds \cup {addInflight[s].fp}
  /\ persisted' = persisted \cup {addInflight[s].list}
  /\ UNCHANGED <<otherVars, mounted, canPersist, messages, currentTaskId, taskStatus, loading,
                 userSaving, recommending, streaming, chatInflight, pvInflight,
                 taskSt, taskRes, placeholderIdx, chatTerminal, onCompleteCalls,
                 addCalls>>

\* addMessage rejected: the catch block logs, nothing is marked as saved.
AddMessageFail(s) ==
  /\ addInflight[s].used
  /\ addInflight' = [addInflight EXCEPT ![s] = EmptyAdd]
  /\ UNCHANGED <<otherVars, persisted, mounted, canPersist, messages, currentTaskId, taskStatus, loading,
                 userSaving, recommending, streaming, chatInflight, pvInflight,
                 savedRecommendationIds, taskSt, taskRes, placeholderIdx,
                 chatTerminal, onCompleteCalls, addCalls>>

(***************************************************************************)
(* Chat's polling effect (Chat.tsx 281-357).                               *)
(***************************************************************************)
\* The effect returns early without a current task, and its clean-up
\* clears the interval when the task id changes or the Chat unmounts.
ChatPollingActive == mounted /\ currentTaskId # NoTask

\* A tick of the interval: pollTaskStatus starts a getTaskStatus request.
ChatTick ==
  /\ ChatPollingActive
  /\ HasFree(chatInflight, EmptyPoll)
  /\ \E o \in PollOutcomes(currentTaskId) :
       chatInflight' = [chatInflight EXCEPT ![FirstFree(chatInflight, EmptyPoll)] =
                          [task |-> currentTaskId, st |-> o.st, res |-> o.res]]
  /\ UNCHANGED <<otherVars, persisted, mounted, canPersist, messages, currentTaskId, taskStatus, loading,
                 userSaving, recommending, streaming, pvInflight, addInflight,
                 savedRecommendationIds, taskSt, taskRes, placeholderIdx,
                 chatTerminal, onCompleteCalls, addCalls>>

\* The setMessages updater of pollTaskStatus.
pollTaskStatusMessages(msgs, r) ==
  LET n == Len(msgs) IN
  IF n > 0 /\ msgs[n].role = "assistant"
    THEN [msgs EXCEPT ![n] =
            IF r.st = "completed" /\ r.res.has THEN WithResults(@, r.res)
            ELSE IF r.st = "error" THEN WithTaskError(@)
            ELSE WithProcessingView(@, r.task)]
    ELSE msgs

\* A faulty variant of TaskIdAfterPoll that forgets setCurrentTaskId(null):
\* C4 must fail with it.
TaskIdAfterPollKeep(r) == currentTaskId

\* The current task id after a response was applied.
TaskIdAfterPoll(r) == IF Terminal(r.st) THEN NoTask ELSE currentTaskId

\* taskStatus after a response was applied: setTaskStatus(status), and
\* setTaskStatus(null) after a terminal one.
TaskStatusAfterPoll(r) ==
  IF Terminal(r.st) THEN NullStatus ELSE [task |-> r.task, st |-> r.st]

\* A faulty variant of the catch block that renders the failure as the
\* task's error: C9 must fail with it.
MessagesAfterPollFailureAsError(msgs) ==
  LET n == Len(msgs) IN
  IF n > 0 /\ msgs[n].role = "assistant"
    THEN [msgs EXCEPT ![n] = WithTaskError(@)] ELSE msgs

\* The catch block of pollTaskStatus: console.error only.
MessagesAfterPollFailure(msgs) == msgs
TaskIdAfterPollFailure == currentTaskId
TaskStatusAfterPollFailure == taskStatus

\* The ProcessingView in the last message is re-rendered with a new
\* onComplete (an inline function): its completion effect runs again, and
\* calls onComplete when the view's status is completed with a result.
CompletionEffectReruns(msgs, r) ==
  LET last == msgs[Len(msgs)] IN
  /\ mounted
  /\ last.role = "assistant" /\ last.kind = "pv"
  /\ ~(r.st = "completed" /\ r.res.has) /\ r.st # "error"
  /\ last.st = "completed" /\ last.res.has

\* The continuation of pollTaskStatus after getTaskStatus resolved.
ChatPollResponse(s) ==
  LET r == chatInflight[s]
      last == messages[Len(messages)] IN
  /\ r.st \notin {"empty", "failed"}
  /\ chatInflight' = [chatInflight EXCEPT ![s] = EmptyPoll]
  /\ messages' = IF mounted THEN pollTaskStatusMessages(messages, r) ELSE messages
  /\ currentTaskId' = IF mounted THEN TaskIdAfterPoll(r) ELSE currentTaskId
  /\ taskStatus' = IF mounted THEN TaskStatusAfterPoll(r) ELSE taskStatus
  /\ chatTerminal' = IF Terminal(r.st) THEN [chatTerminal EXCEPT ![r.task] = TRUE]
                     ELSE chatTerminal
  /\ pvInflight' = DropUnmounted(pvInflight, messages')
  /\ \E ts \in Timestamps :
       IF r.st = "completed" /\ r.res.has
         THEN /\ saveRecommendationResult(r.res, r.task, ts)
              /\ UNCHANGED onCompleteCalls
       ELSE IF CompletionEffectReruns(messages, r)
         THEN /\ saveRecommendationResult(last.res, last.stTask, ts)
              /\ onCompleteCalls' = [onCompleteCalls EXCEPT ![last.stTask] = Bump(@)]
       ELSE NoSave /\ UNCHANGED onCompleteCalls
  /\ UNCHANGED <<otherVars, persisted, mounted, canPersist, loading, userSaving, recommending, streaming,
                 savedRecommendationIds, taskSt, taskRes, placeholderIdx>>

\* getTaskStatus rejected.
ChatPollFailure(s) ==
  /\ chatInflight[s].st = "failed"
  /\ chatInflight' = [chatInflight EXCEPT ![s] = EmptyPoll]
  /\ messages' = MessagesAfterPollFailure(messages)
  /\ currentTaskId' = TaskIdAfterPollFailure
  /\ taskStatus' = TaskStatusAfterPollFailure
  /\ pvInflight' = DropUnmounted(pvInflight, messages')
  /\ UNCHANGED <<otherVars, persisted, mounted, canPersist, loading, userSaving, recommending, streaming,
                 addInflight, savedRecommendationIds, taskSt, taskRes,
                 placeholderIdx, chatTerminal, onCompleteCalls, addCalls>>

(***************************************************************************)
(* ProcessingView (Chat.tsx 1540-1604).  A view is the component rendered  *)
(* in message i; it lives as long as that message renders a ProcessingView *)
(* and the Chat is mounted.                                                *)
(***************************************************************************)
\* The polling effect depends on taskId only: its interval runs from mount
\* to unmount (or to a change of taskId, which starts the next interval).
PvPollingActive(i) ==
  /\ mounted
  /\ i \in 1..Len(messages)
  /\ messages[i].kind = "pv"

\* A tick of the view's interval: pollStatus starts a getTaskStatus request.
PvTick(i) ==
  /\ PvPollingActive(i)
  /\ HasFree(pvInflight, EmptyPvPoll)
  /\ \E o \in PollOutcomes(messages[i].task) :
       pvInflight' = [pvInflight EXCEPT ![FirstFree(pvInflight, EmptyPvPoll)] =
                        [idx |-> i, task |-> messages[i].task, st |-> o.st, res |-> o.res]]
  /\ UNCHANGED <<otherVars, persisted, mounted, canPersist, messages, currentTaskId,
                 taskStatus, loading, userSaving, recommending, streaming,
                 chatInflight, addInflight, savedRecommendationIds, taskSt, taskRes,
                 placeholderIdx, chatTerminal, onCompleteCalls, addCalls>>

\* setStatus(taskStatus)
PvStatusAfterPoll(m, r) == [m EXCEPT !.st = r.st, !.stTask = r.task, !.res = r.res]

\* The completion effect: its dependencies status?.status and status?.result
\* change with every applied response that carries a result (each response
\* is a newly parsed object), and it calls onComplete when the status is
\* completed with a result.
CompletionEffectFires(r) == r.st = "completed" /\ r.res.has

\* The continuation of pollStatus after getTaskStatus resolved.
PvPollResponse(s) ==
  LET r == pvInflight[s] IN
  /\ r.st \notin {"empty", "failed"}
  /\ pvInflight' = [pvInflight EXCEPT ![s] = EmptyPvPoll]
  /\ messages' = [messages EXCEPT ![r.idx] = PvStatusAfterPoll(@, r)]
  /\ \E ts \in Timestamps :
       IF CompletionEffectFires(r)
         THEN /\ saveRecommendationResult(r.res, r.task, ts)
              /\ onCompleteCalls' = [onCompleteCalls EXCEPT ![r.task] = Bump(@)]
         ELSE NoSave /\ UNCHANGED onCompleteCalls
  /\ UNCHANGED <<otherVars, persisted, mounted, canPersist, currentTaskId, taskStatus,
                 loading, userSaving, recommending, streaming, chatInflight,
                 savedRecommendationIds, taskSt, taskRes, placeholderIdx,
                 chatTerminal>>

\* The catch block of pollStatus: console.error only.
PvAfterPollFailure(m) == m

PvPollFailure(s) ==
  LET r == pvInflight[s] IN
  /\ r.st = "failed"
  /\ pvInflight' = [pvInflight EXCEPT ![s] = EmptyPvPoll]
  /\ messages' = [messages EXCEPT ![r.idx] = PvAfterPollFailure(@)]
  /\ UNCHANGED <<otherVars, persisted, mounted, canPersist, currentTaskId, taskStatus,
                 loading, userSaving, recommending, streaming, chatInflight,
                 addInflight, savedRecommendationIds, taskSt, taskRes,
                 placeholderIdx, chatTerminal, onCompleteCalls, addCalls>>

(***************************************************************************)
(* A user turn: onSend (Chat.tsx 642-775).                                 *)
(***************************************************************************)
appendMessage(msgs, m) == Append(msgs, m)

TurnsOpen == userSaving + recommending + streaming

\* onSend up to its first await that suspends: the user message is
\* appended; with persistence, saveUserMessage awaits addMessage; without
\* it, recommend is requested at once.
onSendStart ==
  /\ mounted
  /\ Len(messages) + 2 + userSaving + recommending <= MaxMsgs
  /\ messages' = appendMessage(messages, UserMsg)
  /\ IF canPersist
       THEN /\ userSaving' = userSaving + 1
            /\ UNCHANGED <<loading, recommending>>
       ELSE /\ loading' = TRUE
            /\ recommending' = recommending + 1
            /\ UNCHANGED userSaving
  /\ UNCHANGED <<otherVars, persisted, mounted, canPersist, currentTaskId, taskStatus,
                 streaming, chatInflight, pvInflight, addInflight,
                 savedRecommendationIds, taskSt, taskRes, placeholderIdx,
                 chatTerminal, onCompleteCalls, addCalls>>

\* onSend is called, however the user asks for it, while fewer than
\* MaxTurns calls are open.
OnSend == TurnsOpen < MaxTurns /\ onSendStart

\* saveUserMessage settled (either way): setLoading(true), recommend sent.
SaveUserMessageDone ==
  /\ userSaving > 0
  /\ userSaving' = userSaving - 1
  /\ recommending' = recommending + 1
  /\ loading' = IF mounted THEN TRUE ELSE loading
  /\ UNCHANGED <<otherVars, persisted, mounted, canPersist, messages, currentTaskId,
                 taskStatus, streaming, chatInflight, pvInflight, addInflight,
                 savedRecommendationIds, taskSt, taskRes, placeholderIdx,
                 chatTerminal, onCompleteCalls, addCalls>>

\* handleTaskCreated: setCurrentTaskId(taskId) and the placeholder.
handleTaskCreatedMessages(msgs, t) == appendMessage(msgs, ProcessingViewMsg(t))

FreshTask == CHOOSE t \in Tasks : taskSt[t] = "absent" /\ \A u \in Tasks : u < t => taskSt[u] # "absent"

\* recommend resolved with a reply that names a task: thinking_steps whose
\* first step carries "Task ID: <id>".  The backend has created the task.
ReplyTask ==
  /\ recommending > 0
  /\ \E t \in Tasks : taskSt[t] = "absent"
  /\ Len(messages) < MaxMsgs
  /\ recommending' = recommending - 1
  /\ taskSt' = [taskSt EXCEPT ![FreshTask] = "processing"]
  /\ IF mounted
       THEN /\ currentTaskId' = FreshTask
            /\ messages' = handleTaskCreatedMessages(messages, FreshTask)
            /\ placeholderIdx' = [placeholderIdx EXCEPT ![FreshTask] = Len(messages) + 1]
            /\ loading' = FALSE
       ELSE UNCHANGED <<currentTaskId, messages, placeholderIdx, loading>>
  /\ UNCHANGED <<otherVars, persisted, mounted, canPersist, taskStatus, userSaving,
                 streaming, chatInflight, pvInflight, addInflight,
                 savedRecommendationIds, taskRes, chatTerminal, onCompleteCalls,
                 addCalls>>

\* recommend resolved with llm_reply: an empty assistant message is
\* appended and recommendStream is awaited.
ReplyText ==
  /\ recommending > 0
  /\ Len(messages) < MaxMsgs
  /\ recommending' = recommending - 1
  /\ streaming' = streaming + 1
  /\ messages' = IF mounted THEN appendMessage(messages, TextMsg) ELSE messages
  /\ UNCHANGED <<otherVars, persisted, mounted, canPersist, currentTaskId, taskStatus,
                 loading, userSaving, chatInflight, pvInflight, addInflight,
                 savedRecommendationIds, taskSt, taskRes, placeholderIdx,
                 chatTerminal, onCompleteCalls, addCalls>>

\* The chunk callback of recommendStream: the last message, when it is an
\* assistant's, gets the text received so far as its content.
StreamChunkMessages(msgs) ==
  LET n == Len(msgs) IN
  IF n > 0 /\ msgs[n].role = "assistant"
    THEN [msgs EXCEPT ![n] = WithText(@)] ELSE msgs

StreamChunk ==
  /\ streaming > 0
  /\ mounted
  /\ messages' = StreamChunkMessages(messages)
  /\ pvInflight' = DropUnmounted(pvInflight, messages')
  /\ UNCHANGED <<otherVars, persisted, mounted, canPersist, currentTaskId, taskStatus,
                 loading, userSaving, recommending, streaming, chatInflight,
                 addInflight, savedRecommendationIds, taskSt, taskRes,
                 placeholderIdx, chatTerminal, onCompleteCalls, addCalls>>

\* recommendStream settled: resolved, or rejected (the catch block appends
\* the error message); finally setLoading(false).
StreamEnd(ok) ==
  /\ streaming > 0
  /\ ok \/ Len(messages) < MaxMsgs
  /\ streaming' = streaming - 1
  /\ messages' = IF mounted /\ ~ok THEN appendMessage(messages, SendErrorMsg) ELSE messages
  /\ loading' = IF mounted THEN FALSE ELSE loading
  /\ UNCHANGED <<otherVars, persisted, mounted, canPersist, currentTaskId, taskStatus,
                 userSaving, recommending, chatInflight, pvInflight, addInflight,
                 savedRecommendationIds, taskSt, taskRes, placeholderIdx,
                 chatTerminal, onCompleteCalls, addCalls>>

\* recommend resolved with a confirmation request; isGuidanceCase is
\* res.intent === 'confirmation_no'.  Outside the guidance case the
\* floating buttons are set.
ReplyConfirmation(isGuidanceCase) ==
  /\ recommending > 0
  /\ Len(messages) < MaxMsgs
  /\ recommending' = recommending - 1
  /\ messages' = IF mounted
                   THEN appendMessage(messages, IF isGuidanceCase THEN GuidanceMsg ELSE ConfirmMsg)
                 ELSE messages
  /\ floatingConfirmation' = IF mounted /\ ~isGuidanceCase THEN TRUE ELSE floatingConfirmation
  /\ loading' = IF mounted THEN FALSE ELSE loading
  /\ UNCHANGED <<replyUnchanged, persisted, mounted, canPersist, currentTaskId, taskStatus,
                 userSaving, streaming, chatInflight, pvInflight, addInflight,
                 savedRecommendationIds, taskSt, taskRes, placeholderIdx,
                 chatTerminal, onCompleteCalls, addCalls>>

\* recommend resolved with thinking_steps that name no task: nothing is
\* appended.
ReplyStepsWithoutTask ==
  /\ recommending > 0
  /\ recommending' = recommending - 1
  /\ loading' = IF mounted THEN FALSE ELSE loading
  /\ UNCHANGED <<otherVars, persisted, mounted, canPersist, messages, currentTaskId,
                 taskStatus, userSaving, streaming, chatInflight, pvInflight,
                 addInflight, savedRecommendationIds, taskSt, taskRes,
                 placeholderIdx, chatTerminal, onCompleteCalls, addCalls>>

\* recommend resolved with anything else: the results are shown directly
\* and saved.
ReplyResults(list) ==
  /\ recommending > 0
  /\ Len(messages) < MaxMsgs
  /\ recommending' = recommending - 1
  /\ messages' = IF mounted THEN appendMessage(messages, WithResults(TextMsg, Result(list)))
                 ELSE messages
  /\ loading' = IF mounted THEN FALSE ELSE loading
  /\ \E ts \in Timestamps : saveRecommendationResult(Result(list), NoTask, ts)
  /\ UNCHANGED <<otherVars, persisted, mounted, canPersist, currentTaskId, taskStatus,
                 userSaving, streaming, chatInflight, pvInflight,
                 savedRecommendationIds, taskSt, taskRes, placeholderIdx,
                 chatTerminal, onCompleteCalls>>

\* recommend rejected: the catch block appends the error message.
ReplyFailure ==
  /\ recommending > 0
  /\ Len(messages) < MaxMsgs
  /\ recommending' = recommending - 1
  /\ messages' = IF mounted THEN appendMessage(messages, SendErrorMsg) ELSE messages
  /\ loading' = IF mounted THEN FALSE ELSE loading
  /\ UNCHANGED <<otherVars, persisted, mounted, canPersist, currentTaskId, taskStatus,
                 userSaving, streaming, chatInflight, pvInflight, addInflight,
                 savedRecommendationIds, taskSt, taskRes, placeholderIdx,
                 chatTerminal, onCompleteCalls, addCalls>>

\* The Chat unmounts: the clean-ups clear the intervals of the Chat and of
\* every ProcessingView.  Continuations of requests still in flight run
\* later; their state setters do nothing on the unmounted component.
Unmount ==
  /\ mounted
  /\ mounted' = FALSE
  /\ pvInflight' = [s \in DOMAIN pvInflight |-> EmptyPvPoll]
  /\ UNCHANGED <<otherVars, persisted, canPersist, messages, currentTaskId, taskStatus,
                 loading, userSaving, recommending, streaming, chatInflight,
                 addInflight, savedRecommendationIds, taskSt, taskRes,
                 placeholderIdx, chatTerminal, onCompleteCalls, addCalls>>

Init ==
  /\ ChatInit
  /\ lastSave = [n |-> 0, list |-> <<>>]
  /\ DebugIdle
  /\ doc = <<>>
  /\ fragment = <<>>
  /\ resolved = <<>>
  /\ ApiIdle
  /\ DialogueIdle

Next ==
  \/ OnSend
  \/ SaveUserMessageDone
  \/ ReplyTask
  \/ ReplyText
  \/ StreamChunk
  \/ \E ok \in BOOLEAN : StreamEnd(ok)
  \/ \E isGuidanceCase \in BOOLEAN : ReplyConfirmation(isGuidanceCase)
  \/ ReplyStepsWithoutTask
  \/ \E list \in TaskResultLists : ReplyResults(list)
  \/ ReplyFailure
  \/ ChatTick
  \/ \E s \in 1..MaxInflight : ChatPollResponse(s)
  \/ \E s \in 1..MaxInflight : ChatPollFailure(s)
  \/ \E i \in 1..MaxMsgs : PvTick(i)
  \/ \E s \in 1..MaxPvInflight : PvPollResponse(s)
  \/ \E s \in 1..MaxPvInflight : PvPollFailure(s)
  \/ \E t \in Tasks, list \in TaskResultLists : BackendComplete(t, Result(list))
  \/ \E t \in Tasks : BackendComplete(t, NoResult)
  \/ \E t \in Tasks : BackendError(t)
  \/ \E s \in 1..MaxSaves : AddMessageOk(s)
  \/ \E s \in 1..MaxSaves : AddMessageFail(s)
  \/ Unmount

Spec == Init /\ [][Next]_vars

(***************************************************************************)
(* saveRecommendationResult called directly, on any lists of restaurants,  *)
(* any number of times up to MaxCalls, while earlier addMessage requests   *)
(* are in flight, have resolved or have been rejected.                     *)
(***************************************************************************)
Restaurants == {Ra, Rb, Rn}

RestaurantLists ==
  UNION {[1..n -> Restaurants] : n \in 0..MaxListLen}

SaveCall(list, ts) ==
  /\ lastSave.n < MaxCalls
  /\ saveRecommendationResult(Result(list), NoTask, ts)
  /\ lastSave' = [n |-> lastSave.n + 1, list |-> list]
  /\ UNCHANGED <<debugVars, resolverVars, apiVars, dialogueVars, persisted, mounted, canPersist, messages,
                 currentTaskId, taskStatus, loading, userSaving, recommending, streaming,
                 chatInflight, pvInflight, savedRecommendationIds, taskSt, taskRes,
                 placeholderIdx, chatTerminal, onCompleteCalls>>

NextSave ==
  \/ \E list \in RestaurantLists, ts \in Timestamps : SaveCall(list, ts)
  \/ \E s \in 1..MaxSaves : AddMessageOk(s)
  \/ \E s \in 1..MaxSaves : AddMessageFail(s)

SpecSave == Init /\ [][NextSave]_vars

(***************************************************************************)
(* The schema resolver of the debug page (src/unnamed/part_000).  A JSON   *)
(* value is a record tagged by its kind: null, a string, a number, an      *)
(* object (a function from its keys to values) or an array.  A string is   *)
(* held as the sequence of its parts between "/" characters, which is what *)
(* resolveRef reads of it: "#/components/schemas/A" is                     *)
(* <<"#", "components", "schemas", "A">>.                                   *)
(***************************************************************************)
Null == [k |-> "null"]
Str(parts) == [k |-> "str", s |-> parts]
Num(n) == [k |-> "num", n |-> n]
Obj(f) == [k |-> "obj", f |-> f]
Arr(e) == [k |-> "arr", e |-> e]
Bool(b) == [k |-> "bool", b |-> b]

\* !v
Falsy(v) ==
  \/ v.k = "null"
  \/ v.k = "str" /\ v.s = <<"">>
  \/ v.k = "num" /\ v.n = 0
  \/ v.k = "bool" /\ ~v.b

\* typeof v === 'object', for a value that is not null
IsObjectType(v) == v.k \in {"obj", "arr"}

\* v[key] is present and truthy
Has(v, key) == v.k = "obj" /\ key \in DOMAIN v.f /\ ~Falsy(v.f[key])

\* {...v}: the own enumerable properties of v.  An array spreads into its
\* indices, a number into nothing.  (A string would spread into its
\* characters; no document drawn here refers to a string.)
Spread(v) ==
  IF v.k = "obj" THEN v.f
  ELSE IF v.k = "arr"
    THEN LET idx == 1..Len(v.e) IN
         [key \in {ToString(j - 1) : j \in idx} |->
            v.e[CHOOSE j \in idx : ToString(j - 1) = key]]
  ELSE <<>>

\* {...(v || {})}
SpreadOrEmpty(v) == IF Falsy(v) THEN <<>> ELSE Spread(v)

\* A faulty variant of Merge in which the left value wins for a common
\* key: C12 must fail with it.
MergeLeftWins(a, b) == a @@ b

\* {...a, ...b} on the properties: b's value wins for a common key.
Merge(a, b) == b @@ a

\* const { $ref: _, ...rest } = schema
Rest(f) == [key \in DOMAIN f \ {"$ref"} |-> f[key]]

\* The placeholder returned for a repeated reference.
TypeObject == Obj("type" :> Str(<<"object">>))

\* ref.startsWith('#/')
StartsWithHashSlash(ref) == Len(ref) >= 2 /\ ref[1] = "#"

\* The loop of resolveRef over the parts of the reference.
RECURSIVE Walk(_, _)
Walk(current, parts) ==
  IF parts = <<>> THEN current
  ELSE IF current.k = "obj" /\ Head(parts) \in DOMAIN current.f
    THEN Walk(current.f[Head(parts)], Tail(parts))
  ELSE Null

resolveRef(ref, spec) ==
  IF ~StartsWithHashSlash(ref) THEN Null ELSE Walk(spec, Tail(ref))

\* seen.has(schema.$ref): a faulty variant that never finds the reference,
\* with which C10 must fail, and the check of the code.
SeenHasNever(seen, ref) == FALSE

SeenHas(seen, ref) == ref \in seen

\* A faulty variant of SeenCopy in which the properties of one object share
\* one visited set, so that a reference carried by a property counts as
\* visited for its siblings: C11 must fail with it.
SeenSharedBySiblings(seen, entries) ==
  seen \cup {entries[key].f["$ref"].s :
               key \in {k2 \in DOMAIN entries :
                          Has(entries[k2], "$ref") /\ entries[k2].f["$ref"].k = "str"}}

\* new Set(seen): the visited set a property of entries is resolved with.
SeenCopy(seen, entries) == seen

\* What a call of resolveSchema gives: the value it returns, the visited
\* set as the call leaves it (the set is shared with the caller and
\* mutated), and ok, which is FALSE when the recursion went deeper than
\* StackLimit calls (the engine throws a RangeError).
Returned(v, seen) == [v |-> v, seen |-> seen, ok |-> TRUE]
Overflow(seen) == [v |-> Null, seen |-> seen, ok |-> FALSE]

RECURSIVE resolveSchema(_, _, _, _)
RECURSIVE ReduceAllOf(_, _, _, _, _)

\* schema.allOf.reduce(...) from the accumulator acc on.
ReduceAllOf(parts, acc, spec, seen, depth) ==
  IF parts = <<>> THEN Returned(Obj(acc), seen)
  ELSE LET r == resolveSchema(Head(parts), spec, seen, depth + 1) IN
       IF ~r.ok THEN Overflow(r.seen)
       ELSE ReduceAllOf(Tail(parts), Merge(acc, SpreadOrEmpty(r.v)), spec, r.seen, depth)

resolveSchema(schema, spec, seen, depth) ==
  IF depth > StackLimit THEN Overflow(seen)
  ELSE IF Falsy(schema) \/ ~IsObjectType(schema) THEN Returned(schema, seen)
  ELSE IF Has(schema, "$ref") /\ schema.f["$ref"].k = "str"
    THEN LET ref == schema.f["$ref"].s IN
         IF SeenHas(seen, ref) THEN Returned(TypeObject, seen)
         ELSE LET r == resolveSchema(resolveRef(ref, spec), spec, seen \cup {ref}, depth + 1) IN
              IF ~r.ok THEN Overflow(r.seen)
              ELSE Returned(Obj(Merge(SpreadOrEmpty(r.v), Rest(schema.f))), r.seen)
  ELSE IF schema.k = "obj" /\ "allOf" \in DOMAIN schema.f /\ schema.f["allOf"].k = "arr"
    THEN ReduceAllOf(schema.f["allOf"].e, <<>>, spec, seen, depth)
  ELSE
    LET next == Spread(schema)
        hasItems == "items" \in DOMAIN next /\ ~Falsy(next["items"])
        ri == IF hasItems THEN resolveSchema(next["items"], spec, seen, depth + 1)
              ELSE Returned(Null, seen)
        next1 == IF hasItems THEN ("items" :> ri.v) @@ next ELSE next
        hasProps == /\ "properties" \in DOMAIN next
                    /\ ~Falsy(next["properties"])
                    /\ IsObjectType(next["properties"])
        entries == IF hasProps THEN Spread(next["properties"]) ELSE <<>>
        \* every property is resolved with its own copy of the visited set
        rp == [key \in DOMAIN entries |->
                 resolveSchema(entries[key], spec, SeenCopy(ri.seen, entries), depth + 1)]
        props == [key \in DOMAIN entries |-> rp[key].v]
        next2 == IF hasProps THEN ("properties" :> Obj(props)) @@ next1 ELSE next1
    IN IF ~ri.ok \/ \E key \in DOMAIN entries : ~rp[key].ok THEN Overflow(ri.seen)
       ELSE Returned(Obj(next2), ri.seen)

(***************************************************************************)
(* The documents and fragments the resolver is run on: a document with the *)
(* schemas A and B under components.schemas, and schemas built from a      *)
(* string type, references to A, to B and to a schema that is missing, in  *)
(* an object's properties, an array's items and an allOf.                  *)
(***************************************************************************)
SchemaRef(name) == <<"#", "components", "schemas", name>>
RefTo(name) == Obj("$ref" :> Str(SchemaRef(name)))
TypeString == Obj("type" :> Str(<<"string">>))

SchemaRefs == {SchemaRef(name) : name \in {"A", "B", "M"}}

Leaves == {TypeString, RefTo("A"), RefTo("B"), RefTo("M")}

ObjectOf(x, y) ==
  Obj("type" :> Str(<<"object">>) @@ "properties" :> Obj("x" :> x @@ "y" :> y))
ArrayOf(item) == Obj("type" :> Str(<<"array">>) @@ "items" :> item)
AllOf(parts) == Obj("allOf" :> Arr(parts))

Schemas ==
  Leaves
  \cup {ObjectOf(x, y) : x \in Leaves, y \in Leaves}
  \cup {ArrayOf(item) : item \in Leaves}
  \cup {AllOf(parts) : parts \in UNION {[1..n -> Leaves] : n \in 1..MaxAllOf}}

\* Schemas without references, for the merge of an allOf: {a: 1},
\* {a: 2, b: 3} and the string type.
PlainLeaves ==
  {Obj("a" :> Num(1)), Obj("a" :> Num(2) @@ "b" :> Num(3)), TypeString}

PlainAllOfs ==
  {AllOf(parts) : parts \in UNION {[1..n -> PlainLeaves] : n \in 1..MaxAllOf}}

Document(a, b) ==
  Obj("components" :> Obj("schemas" :> Obj("A" :> a @@ "B" :> b)))

NotResolved == [done |-> FALSE]

InitResolve ==
  /\ ChatInit
  /\ canPersist
  /\ lastSave = [n |-> 0, list |-> <<>>]
  /\ DebugIdle
  /\ \E a \in Schemas, b \in Schemas : doc = Document(a, b)
  /\ fragment \in Schemas \cup PlainAllOfs
  /\ resolved = NotResolved
  /\ ApiIdle
  /\ DialogueIdle

\* resolveSchema(fragment, doc), with the default argument seen = new Set().
Resolve ==
  /\ resolved = NotResolved
  /\ resolved' = LET r == resolveSchema(fragment, doc, {}, 0) IN
                 [done |-> TRUE, ok |-> r.ok, v |-> r.v]
  /\ UNCHANGED <<chatVars, lastSave, debugVars, doc, fragment, apiVars, dialogueVars>>

NextResolve == Resolve

SpecResolve == InitResolve /\ [][NextResolve]_vars

(***************************************************************************)
(* The operation catalogue of the debug page: buildApiOperations and       *)
(* buildApiInputCompositeSchema (src/unnamed/part_000).  The keys of a     *)
(* JavaScript object are enumerated in the order they were inserted; the   *)
(* model keeps that order beside the document, in keyOrder.                *)
(***************************************************************************)
\* v?.[key]; a missing key reads as null.
Get(v, key) == IF v.k = "obj" /\ key \in DOMAIN v.f THEN v.f[key] ELSE Null

\* Object.keys(v) in insertion order.
Keys(v, order) == IF v.k = "obj" THEN SelectSeq(order, LAMBDA key : key \in DOMAIN v.f) ELSE <<>>

\* Array.isArray(v) ? v : []
ArrayOrEmpty(v) == IF v.k = "arr" THEN v.e ELSE <<>>

\* The text of a string value, its parts joined by "/".
RECURSIVE JoinSlash(_)
JoinSlash(parts) ==
  IF parts = <<>> THEN ""
  ELSE IF Len(parts) = 1 THEN parts[1]
  ELSE parts[1] \o "/" \o JoinSlash(Tail(parts))

\* String(v || ''), for the strings the documents carry.
Text(v) == IF v.k = "str" THEN JoinSlash(v.s) ELSE ""

HTTP_METHODS == <<"get", "post", "put", "patch", "delete", "options", "head">>

\* method.toUpperCase()
ToUpperCase(method) ==
  CASE method = "get" -> "GET"
    [] method = "post" -> "POST"
    [] method = "put" -> "PUT"
    [] method = "patch" -> "PATCH"
    [] method = "delete" -> "DELETE"
    [] method = "options" -> "OPTIONS"
    [] method = "head" -> "HEAD"
    [] OTHER -> method

\* The position of a path or of an upper-cased method in the order of
\* String.prototype.localeCompare.
LocaleRank(str) ==
  CASE str = "/a" -> 1
    [] str = "/b" -> 2
    [] str = "/c" -> 3
    [] str = "DELETE" -> 4
    [] str = "GET" -> 5
    [] str = "HEAD" -> 6
    [] str = "OPTIONS" -> 7
    [] str = "PATCH" -> 8
    [] str = "POST" -> 9
    [] str = "PUT" -> 10
    [] OTHER -> 0

\* a.localeCompare(b)
LocaleCompare(a, b) ==
  IF LocaleRank(a) < LocaleRank(b) THEN -1
  ELSE IF LocaleRank(a) > LocaleRank(b) THEN 1 ELSE 0

\* p?.$ref ? resolveRef(p.$ref, spec) || p : p
ResolvedParam(param, spec) ==
  IF Has(param, "$ref")
    THEN LET target == resolveRef(param.f["$ref"].s, spec) IN
         IF Falsy(target) THEN param ELSE target
    ELSE param

\* The entry rawParams.map builds for one parameter.
ApiOperationParam(param, spec) ==
  LET rp == ResolvedParam(param, spec)
      schema == IF Falsy(Get(rp, "schema")) THEN Obj(<<>>) ELSE Get(rp, "schema")
  IN [name |-> Text(Get(rp, "name")),
      in |-> IF Falsy(Get(rp, "in")) THEN "query" ELSE Text(Get(rp, "in")),
      required |-> ~Falsy(Get(rp, "required")),
      schema |-> resolveSchema(schema, spec, {}, 0).v]

\* .filter(p => p.name)
FilterNamed(params) == SelectSeq(params, LAMBDA q : q.name # "")

\* The parameters of an operation with one entry for each name, the first.
ResolvedParamsByName(pathItem, op, spec) ==
  LET rawParams == ArrayOrEmpty(Get(pathItem, "parameters")) \o ArrayOrEmpty(Get(op, "parameters"))
      all == FilterNamed([i \in 1..Len(rawParams) |-> ApiOperationParam(rawParams[i], spec)])
      first(i) == \A j \in 1..(i - 1) : all[j].name # all[i].name
      RECURSIVE Firsts(_)
      Firsts(i) == IF i > Len(all) THEN <<>>
                   ELSE (IF first(i) THEN <<all[i]>> ELSE <<>>) \o Firsts(i + 1)
  IN Firsts(1)

\* The parameters of an operation: path-level, then operation-level.
ResolvedParams(pathItem, op, spec) ==
  LET rawParams == ArrayOrEmpty(Get(pathItem, "parameters")) \o ArrayOrEmpty(Get(op, "parameters"))
  IN FilterNamed([i \in 1..Len(rawParams) |-> ApiOperationParam(rawParams[i], spec)])

\* op.requestBody?.content || {}
ContentOf(op) ==
  LET content == Get(Get(op, "requestBody"), "content") IN
  IF Falsy(content) THEN Obj(<<>>) ELSE content

\* The selected request content type; "" stands for null.
RequestContentType(content, order) ==
  IF ~Falsy(Get(content, "application/json")) THEN "application/json"
  ELSE IF Keys(content, order) = <<>> THEN ""
  ELSE Keys(content, order)[1]

\* requestContentType ? resolveSchema(content[requestContentType]?.schema || null, spec) : null
RequestBodySchema(content, contentType, spec) ==
  IF contentType = "" THEN Null
  ELSE LET schema == Get(Get(content, contentType), "schema") IN
       resolveSchema(IF Falsy(schema) THEN Null ELSE schema, spec, {}, 0).v

\* op.summary || op.operationId || `${method.toUpperCase()} ${path}`
SummaryOf(op, id) ==
  IF ~Falsy(Get(op, "summary")) THEN Text(Get(op, "summary"))
  ELSE IF ~Falsy(Get(op, "operationId")) THEN Text(Get(op, "operationId"))
  ELSE id

\* The entry out.push adds for one method of one path.
ApiOperation(path, method, pathItem, spec, order) ==
  LET op == Get(pathItem, method)
      content == ContentOf(op)
      contentType == RequestContentType(content, order.content)
      id == ToUpperCase(method) \o " " \o path
  IN [id |-> id,
      method |-> ToUpperCase(method),
      path |-> path,
      summary |-> SummaryOf(op, id),
      parameters |-> ResolvedParams(pathItem, op, spec),
      requestBodySchema |-> RequestBodySchema(content, contentType, spec),
      requestBodyRequired |-> ~Falsy(Get(Get(op, "requestBody"), "required")),
      requestContentType |-> contentType]

\* The inner loop over the methods of one path item.
RECURSIVE OperationsOfPath(_, _, _, _, _)
OperationsOfPath(path, methods, pathItem, spec, order) ==
  IF methods = <<>> THEN <<>>
  ELSE LET op == Get(pathItem, Head(methods))
           rest == OperationsOfPath(path, Tail(methods), pathItem, spec, order)
       IN IF Falsy(op) \/ ~IsObjectType(op) THEN rest
          ELSE <<ApiOperation(path, Head(methods), pathItem, spec, order)>> \o rest

\* The outer loop over Object.entries(spec.paths).
RECURSIVE OperationsOfPaths(_, _, _)
OperationsOfPaths(paths, spec, order) ==
  IF paths = <<>> THEN <<>>
  ELSE LET pathItem == Get(Get(spec, "paths"), Head(paths))
           rest == OperationsOfPaths(Tail(paths), spec, order)
       IN IF Falsy(pathItem) \/ ~IsObjectType(pathItem) THEN rest
          ELSE OperationsOfPath(Head(paths), HTTP_METHODS, pathItem, spec, order) \o rest

\* A comparator that looks at the path alone.
ComparePathsOnly(a, b) == LocaleCompare(a.path, b.path)

\* The comparator of out.sort.
CompareOperations(a, b) ==
  IF LocaleCompare(a.path, b.path) # 0 THEN LocaleCompare(a.path, b.path)
  ELSE LocaleCompare(a.method, b.method)

\* Array.prototype.sort with the comparator: a stable sort.
RECURSIVE InsertOperation(_, _)
InsertOperation(x, sorted) ==
  IF sorted = <<>> THEN <<x>>
  ELSE IF CompareOperations(x, Head(sorted)) < 0 THEN <<x>> \o sorted
  ELSE <<Head(sorted)>> \o InsertOperation(x, Tail(sorted))

RECURSIVE SortOperations(_)
SortOperations(ops) ==
  IF ops = <<>> THEN <<>>
  ELSE InsertOperation(ops[Len(ops)], SortOperations(SubSeq(ops, 1, Len(ops) - 1)))

buildApiOperations(spec, order) ==
  LET paths == Get(spec, "paths") IN
  IF Falsy(paths) \/ ~IsObjectType(paths) THEN <<>>
  ELSE SortOperations(OperationsOfPaths(Keys(paths, order.paths), spec, order))

\* A string without "/" as a JSON value.
StrOf(text) == Str(<<text>>)

\* The names of params that are required, in order.
RECURSIVE RequiredNames(_)
RequiredNames(params) ==
  IF params = <<>> THEN <<>>
  ELSE (IF Head(params).required THEN <<StrOf(Head(params).name)>> ELSE <<>>)
       \o RequiredNames(Tail(params))

\* properties[p.name] = p.schema || { type: 'string' }: for a name that
\* occurs more than once the last parameter's schema stays.
buildParameterSchema(params) ==
  LET names == {params[i].name : i \in 1..Len(params)}
      last(name) == CHOOSE i \in 1..Len(params) :
                      /\ params[i].name = name
                      /\ \A j \in (i + 1)..Len(params) : params[j].name # name
      properties == [name \in names |->
                       IF Falsy(params[last(name)].schema) THEN TypeString
                       ELSE params[last(name)].schema]
  IN Obj("type" :> StrOf("object")
         @@ "properties" :> Obj(properties)
         @@ "required" :> Arr(RequiredNames(params)))

\* op is an element of the catalogue, or Null for no operation.
buildApiInputCompositeSchema(op) ==
  IF op = Null THEN Null
  ELSE
    LET pathParams == SelectSeq(op.parameters, LAMBDA q : q.in = "path")
        queryParams == SelectSeq(op.parameters, LAMBDA q : q.in = "query")
        hasBody == ~Falsy(op.requestBodySchema) /\ op.requestContentType = "application/json"
        properties ==
          (IF pathParams # <<>> THEN "path_params" :> buildParameterSchema(pathParams) ELSE <<>>)
          @@ (IF queryParams # <<>> THEN "query_params" :> buildParameterSchema(queryParams) ELSE <<>>)
          @@ (IF hasBody THEN "body" :> op.requestBodySchema ELSE <<>>)
        required ==
          (IF pathParams # <<>> THEN <<StrOf("path_params")>> ELSE <<>>)
          \o (IF hasBody /\ op.requestBodyRequired THEN <<StrOf("body")>> ELSE <<>>)
    IN Obj("type" :> StrOf("object")
           @@ "properties" :> Obj(properties)
           @@ "required" :> Arr(required))

(***************************************************************************)
(* The documents the catalogue is built from: the paths /a and /b in       *)
(* either insertion order, each with any of the methods get and post; the  *)
(* same path-level parameters on every path and the same operation object  *)
(* under every method, with parameters drawn from RawParams and a request  *)
(* body whose content map has the content types of one of ContentOrders.   *)
(***************************************************************************)
ParamId ==
  Obj("name" :> StrOf("id") @@ "in" :> StrOf("path") @@ "required" :> Bool(TRUE)
      @@ "schema" :> TypeString)
\* an optional query parameter
ParamQ == Obj("name" :> StrOf("q") @@ "in" :> StrOf("query") @@ "schema" :> RefTo("A"))
\* a required query parameter without a schema
ParamLimit == Obj("name" :> StrOf("limit") @@ "in" :> StrOf("query") @@ "required" :> Bool(TRUE))
ParamRef(name) == Obj("$ref" :> Str(<<"#", "components", "parameters", name>>))

\* ParamRef("P") resolves to ParamId; ParamRef("M") to nothing, which
\* leaves a parameter without a name.
RawParams == {ParamId, ParamQ, ParamLimit, ParamRef("P"), ParamRef("M")}

ParamLists(maxLen) == UNION {[1..n -> RawParams] : n \in 0..maxLen}

PathNames == {"/a", "/b"}
MethodNames == {"get", "post", "delete"}

PathOrders ==
  {order \in UNION {[1..n -> PathNames] : n \in 0..Cardinality(PathNames)} :
     \A i, j \in 1..Len(order) : i # j => order[i] # order[j]}

ContentOrders ==
  { <<>>, <<"application/json">>, <<"text/plain">>,
    <<"text/plain", "application/json">>, <<"text/plain", "application/xml">>,
    <<"application/xml", "text/plain">> }

ContentEntry(contentType) ==
  CASE contentType = "application/json" -> Obj("schema" :> RefTo("A"))
    [] contentType = "text/plain" -> Obj("schema" :> TypeString)
    [] OTHER -> Obj(<<>>)

OperationObject(params, contentOrder) ==
  Obj(("parameters" :> Arr(params))
      @@ (IF contentOrder = <<>> THEN <<>>
          ELSE "requestBody" :>
                 Obj("required" :> Bool(TRUE)
                     @@ "content" :>
                          Obj([ct \in {contentOrder[i] : i \in 1..Len(contentOrder)} |->
                                 ContentEntry(ct)]))))

PathItem(pathParams, methods, op) ==
  Obj(("parameters" :> Arr(pathParams)) @@ [method \in methods |-> op])

ApiDocument(pathOrder, methodsOf, pathParams, op) ==
  Obj("paths" :>
        Obj([path \in DOMAIN methodsOf |-> PathItem(pathParams, methodsOf[path], op)])
      @@ "components" :>
           Obj("schemas" :> Obj("A" :> TypeString)
               @@ "parameters" :> Obj("P" :> ParamId)))

InitOperations ==
  /\ ChatInit
  /\ canPersist
  /\ lastSave = [n |-> 0, list |-> <<>>]
  /\ DebugIdle
  /\ fragment = <<>>
  /\ resolved = <<>>
  /\ \E pathOrder \in PathOrders, contentOrder \in ContentOrders,
        pathParams \in ParamLists(MaxParams), opParams \in ParamLists(MaxParams + 1) :
       \E methodsOf \in [{pathOrder[i] : i \in 1..Len(pathOrder)} -> SUBSET MethodNames] :
         /\ keyOrder = [paths |-> pathOrder, content |-> contentOrder]
         /\ doc = ApiDocument(pathOrder, methodsOf, pathParams,
                              OperationObject(opParams, contentOrder))
  /\ operations = NotBuilt
  /\ composite = NotBuilt
  /\ DialogueIdle

\* The memo apiOperations = buildApiOperations(openApiSpec).
BuildOperations ==
  /\ operations = NotBuilt
  /\ operations' = [done |-> TRUE, list |-> buildApiOperations(doc, keyOrder)]
  /\ UNCHANGED <<chatVars, lastSave, debugVars, resolverVars, keyOrder, composite, dialogueVars>>

\* The memo buildApiInputCompositeSchema(selectedOperation), for the
\* operation at position i of the catalogue, or for none (i = 0).
ComposeInput(i) ==
  /\ operations # NotBuilt
  /\ composite = NotBuilt
  /\ i \in 0..Len(operations.list)
  /\ composite' = [done |-> TRUE, op |-> i,
                   schema |-> buildApiInputCompositeSchema(
                                IF i = 0 THEN Null ELSE operations.list[i])]
  /\ UNCHANGED <<chatVars, lastSave, debugVars, resolverVars, keyOrder, operations, dialogueVars>>

MaxOperations == Cardinality(PathNames) * Cardinality(MethodNames)

NextOperations ==
  \/ BuildOperations
  \/ \E i \in 0..MaxOperations : ComposeInput(i)

SpecOperations == InitOperations /\ [][NextOperations]_vars

(***************************************************************************)
(* The reply of recommend (RecommendationResponse, types.ts 63-70) and the *)
(* branch each entry point of the Chat takes on it.  A reply says whether  *)
(* llm_reply and confirmation_request are present (and not empty), whether *)
(* thinking_steps is absent, present without a task id in its first step, *)
(* or present with one, which restaurants it lists, its intent, and        *)
(* whether preferences is present.                                         *)
(***************************************************************************)
Intents == {"chat", "confirmation_no", "query"}
ThinkingSteps == {"absent", "noTask", "task"}

Replies ==
  [llm_reply : BOOLEAN, confirmation_request : BOOLEAN, thinking_steps : ThinkingSteps,
   restaurants : TaskResultLists, intent : Intents, preferences : BOOLEAN]

EntryPoints == {"onSend", "handlePreferenceConfirm", "handleConfirm", "handleNotSatisfied"}

\* The if-chain of onSend (Chat.tsx 681-762).
onSendBranch(res) ==
  IF res.llm_reply THEN "llm_reply"
  ELSE IF res.confirmation_request THEN "confirmation_request"
  ELSE IF res.thinking_steps # "absent" THEN "thinking_steps"
  ELSE "restaurants"

\* The if-chain of handlePreferenceConfirm (Chat.tsx 458-484).
handlePreferenceConfirmBranch(res) ==
  IF res.llm_reply THEN "llm_reply"
  ELSE IF res.confirmation_request THEN "confirmation_request"
  ELSE IF res.thinking_steps # "absent" THEN "thinking_steps"
  ELSE IF res.restaurants # <<>> THEN "restaurants"
  ELSE "none"

\* The if-chain of handleConfirm (Chat.tsx 518-544).
handleConfirmBranch(res) ==
  IF res.confirmation_request THEN "confirmation_request"
  ELSE IF res.thinking_steps # "absent" THEN "thinking_steps"
  ELSE IF res.restaurants # <<>> THEN "restaurants"
  ELSE IF res.llm_reply THEN "llm_reply"
  ELSE "none"

\* isConfirmNoCase of handleNotSatisfied (Chat.tsx 570-571).
isConfirmNoCase(res) ==
  \/ res.intent = "confirmation_no"
  \/ res.intent = "chat" /\ res.llm_reply /\ res.preferences

\* The if-chain of handleNotSatisfied (Chat.tsx 573-612); in the first
\* branch llm_reply is shown together with the preferences.
handleNotSatisfiedBranch(res) ==
  IF isConfirmNoCase(res) /\ res.llm_reply /\ res.preferences THEN "llm_reply_guidance"
  ELSE IF res.llm_reply THEN "llm_reply"
  ELSE IF res.confirmation_request THEN "confirmation_request"
  ELSE IF res.thinking_steps # "absent" THEN "thinking_steps"
  ELSE IF res.restaurants # <<>> THEN "restaurants"
  ELSE "none"

BranchOf(entry, res) ==
  CASE entry = "onSend" -> onSendBranch(res)
    [] entry = "handlePreferenceConfirm" -> handlePreferenceConfirmBranch(res)
    [] entry = "handleConfirm" -> handleConfirmBranch(res)
    [] entry = "handleNotSatisfied" -> handleNotSatisfiedBranch(res)

\* Any reply, handled by any entry point.
InitReply ==
  /\ ChatInit
  /\ canPersist
  /\ lastSave = [n |-> 0, list |-> <<>>]
  /\ DebugIdle
  /\ doc = <<>>
  /\ fragment = <<>>
  /\ resolved = <<>>
  /\ ApiIdle
  /\ floatingConfirmation = FALSE
  /\ conversationId = 1
  /\ handlerTurn = NoTurn
  /\ historyInflight = NoHistory
  /\ \E res \in Replies : reply = [given |-> TRUE, res |-> res]
  /\ dispatched = NotDispatched

Dispatch(entry) ==
  /\ dispatched = NotDispatched
  /\ dispatched' = [done |-> TRUE, entry |-> entry, branch |-> BranchOf(entry, reply.res)]
  /\ UNCHANGED <<chatVars, lastSave, debugVars, resolverVars, apiVars, floatingConfirmation,
                 conversationId, handlerTurn, historyInflight, reply>>

NextReply == \E entry \in EntryPoints : Dispatch(entry)

SpecReply == InitReply /\ [][NextReply]_vars

(***************************************************************************)
(* The dialogue of the Chat: the floating confirm and not-satisfied        *)
(* buttons, the confirmation handlers and handlePreferenceConfirm          *)
(* (Chat.tsx 437-623), next to onSend, and the loading of the history of   *)
(* the conversation (Chat.tsx 167-223).                                    *)
(***************************************************************************)
\* isLastAssistantMessage for the last message: the buttons are rendered
\* under it.
ButtonsDisplayed ==
  /\ mounted
  /\ floatingConfirmation
  /\ messages # <<>>
  /\ messages[Len(messages)].role = "assistant"

\* A PreferenceDisplay with a confirm button is rendered.
PreferenceConfirmDisplayed ==
  /\ mounted
  /\ \E i \in 1..Len(messages) : messages[i].kind \in {"guidance", "replyGuidance"}

\* What the dialogue handlers leave alone before recommend is answered.
handlerUnchanged ==
  <<lastSave, debugVars, resolverVars, apiVars, conversationId, historyInflight, reply, dispatched,
    persisted, mounted, canPersist, currentTaskId, taskStatus, userSaving, recommending,
    streaming, chatInflight, pvInflight, addInflight, savedRecommendationIds, taskSt,
    taskRes, placeholderIdx, chatTerminal, onCompleteCalls, addCalls>>

\* A handler up to its first await that suspends: the user message is
\* appended; with persistence, saveUserMessage awaits addMessage; without
\* it, recommend is requested at once.
HandlerStart(entry) ==
  /\ handlerTurn = NoTurn
  /\ Len(messages) + 2 <= MaxMsgs
  /\ messages' = appendMessage(messages, UserMsg)
  /\ handlerTurn' = [entry |-> entry, phase |-> IF canPersist THEN "saving" ELSE "recommending"]
  /\ loading' = IF canPersist THEN loading ELSE TRUE

\* The confirm button is pressed: handleConfirm.
HandleConfirm ==
  /\ ButtonsDisplayed
  /\ floatingConfirmation' = FALSE
  /\ HandlerStart("handleConfirm")
  /\ UNCHANGED handlerUnchanged

\* The not-satisfied button is pressed: handleNotSatisfied.
HandleNotSatisfied ==
  /\ ButtonsDisplayed
  /\ floatingConfirmation' = FALSE
  /\ HandlerStart("handleNotSatisfied")
  /\ UNCHANGED handlerUnchanged

\* The preferences are confirmed: handlePreferenceConfirm.
HandlePreferenceConfirm ==
  /\ PreferenceConfirmDisplayed
  /\ HandlerStart("handlePreferenceConfirm")
  /\ UNCHANGED <<handlerUnchanged, floatingConfirmation>>

\* The close button next to the two buttons: setFloatingConfirmation(null).
DismissButtons ==
  /\ ButtonsDisplayed
  /\ floatingConfirmation' = FALSE
  /\ UNCHANGED <<handlerUnchanged, messages, loading, handlerTurn>>

\* saveUserMessage settled (either way): setLoading(true), recommend sent.
HandlerUserMessageSaved ==
  /\ handlerTurn.phase = "saving"
  /\ handlerTurn' = [handlerTurn EXCEPT !.phase = "recommending"]
  /\ loading' = IF mounted THEN TRUE ELSE loading
  /\ UNCHANGED <<handlerUnchanged, messages, floatingConfirmation>>

\* The message a handler appends for a confirmation request:
\* handlePreferenceConfirm passes no onPreferenceConfirm.
ConfirmationMsg(entry, isGuidanceCase) ==
  IF ~isGuidanceCase THEN ConfirmMsg
  ELSE IF entry = "handlePreferenceConfirm" THEN GuidanceViewMsg
  ELSE GuidanceMsg

\* recommend resolved in a handler: the branch of its if-chain, then
\* finally setLoading(false).
HandlerReply(res) ==
  LET entry == handlerTurn.entry
      branch == BranchOf(entry, res)
      isGuidanceCase == res.intent = "confirmation_no"
      createsTask == branch = "thinking_steps" /\ res.thinking_steps = "task"
      appended ==
        CASE branch = "llm_reply" -> <<TextMsg>>
          [] branch = "llm_reply_guidance" -> <<ReplyGuidanceMsg>>
          [] branch = "confirmation_request" -> <<ConfirmationMsg(entry, isGuidanceCase)>>
          [] branch = "thinking_steps" ->
               IF createsTask THEN <<ProcessingViewMsg(FreshTask)>> ELSE <<>>
          [] branch = "restaurants" -> <<WithResults(TextMsg, Result(res.restaurants))>>
          [] OTHER -> <<>>
  IN
  /\ handlerTurn.phase = "recommending"
  /\ Len(messages) < MaxMsgs
  /\ createsTask => \E t \in Tasks : taskSt[t] = "absent"
  /\ handlerTurn' = NoTurn
  /\ messages' = IF mounted THEN messages \o appended ELSE messages
  /\ floatingConfirmation' =
       IF mounted /\ branch = "confirmation_request" /\ ~isGuidanceCase
         THEN TRUE ELSE floatingConfirmation
  /\ loading' = IF mounted THEN FALSE ELSE loading
  /\ IF createsTask
       THEN /\ taskSt' = [taskSt EXCEPT ![FreshTask] = "processing"]
            /\ IF mounted
                 THEN /\ currentTaskId' = FreshTask
                      /\ placeholderIdx' = [placeholderIdx EXCEPT ![FreshTask] = Len(messages) + 1]
                 ELSE UNCHANGED <<currentTaskId, placeholderIdx>>
       ELSE UNCHANGED <<taskSt, currentTaskId, placeholderIdx>>
  /\ IF branch = "restaurants"
       THEN \E ts \in Timestamps : saveRecommendationResult(Result(res.restaurants), NoTask, ts)
       ELSE NoSave
  /\ UNCHANGED <<lastSave, debugVars, resolverVars, apiVars, conversationId, historyInflight, reply,
                 dispatched, persisted, mounted, canPersist, taskStatus, userSaving,
                 recommending, streaming, chatInflight, pvInflight,
                 savedRecommendationIds, taskRes, chatTerminal, onCompleteCalls>>

\* recommend rejected in a handler: the catch block appends the error
\* message; finally setLoading(false).
HandlerFailure ==
  /\ handlerTurn.phase = "recommending"
  /\ Len(messages) < MaxMsgs
  /\ handlerTurn' = NoTurn
  /\ messages' = IF mounted THEN appendMessage(messages, SendErrorMsg) ELSE messages
  /\ loading' = IF mounted THEN FALSE ELSE loading
  /\ UNCHANGED <<handlerUnchanged, floatingConfirmation>>

\* A stored message of a conversation: its role and, for a saved
\* recommendation, the restaurants of metadata.recommendation_data.
StoredText(role) == [role |-> role, rec |-> NoResult]
StoredRecommendation(list) == [role |-> "assistant", rec |-> Result(list)]

\* The conversations the backend may return: none or an empty one, one of
\* plain messages, and one with a saved recommendation.
Histories ==
  { <<>>,
    <<StoredText("user"), StoredText("assistant")>>,
    <<StoredText("user"), StoredRecommendation(<<Ra>>)>> }

\* conversation.messages.map(...): the messages shown for a history.
historyMessages(history) ==
  [i \in 1..Len(history) |->
     IF history[i].rec.has
       THEN WithResults(TextMsg, history[i].rec)
       ELSE Msg(history[i].role, "text", NoTask, "none", NoTask, NoResult)]

\* savedIds: the fingerprints of the recommendations of a history.
savedIds(history, ts) ==
  {ResultId(history[i].rec.list, ts) : i \in {j \in 1..Len(history) : history[j].rec.has}}

\* The conversationId prop changes to another conversation: the history
\* effect runs again and requests that conversation.
ConversationChanged(id) ==
  /\ mounted
  /\ id # conversationId
  /\ HasFree(historyInflight, NoConversation)
  /\ conversationId' = id
  /\ historyInflight' = [historyInflight EXCEPT ![FirstFree(historyInflight, NoConversation)] = id]
  /\ UNCHANGED <<chatVars, lastSave, debugVars, resolverVars, apiVars, floatingConfirmation,
                 handlerTurn, reply, dispatched>>

\* getConversation resolved with a conversation: with messages, the saved
\* set is replaced and the messages are set; without, the welcome message
\* is set.  Every ProcessingView that was rendered unmounts.
HistoryResponse(s, history) ==
  /\ historyInflight[s] # NoConversation
  /\ historyInflight' = [historyInflight EXCEPT ![s] = NoConversation]
  /\ IF history # <<>>
       THEN /\ \E ts \in Timestamps : savedRecommendationIds' = savedIds(history, ts)
            /\ messages' = IF mounted THEN historyMessages(history) ELSE messages
       ELSE /\ messages' = IF mounted THEN <<WELCOME_MESSAGE>> ELSE messages
            /\ UNCHANGED savedRecommendationIds
  /\ pvInflight' = IF mounted THEN [p \in DOMAIN pvInflight |-> EmptyPvPoll] ELSE pvInflight
  /\ UNCHANGED <<lastSave, debugVars, resolverVars, apiVars, floatingConfirmation, conversationId,
                 handlerTurn, reply, dispatched, persisted, mounted, canPersist,
                 currentTaskId, taskStatus, loading, userSaving, recommending, streaming,
                 chatInflight, addInflight, taskSt, taskRes, placeholderIdx, chatTerminal,
                 onCompleteCalls, addCalls>>

\* getConversation rejected: the welcome message is set.
HistoryFailure(s) ==
  /\ historyInflight[s] # NoConversation
  /\ historyInflight' = [historyInflight EXCEPT ![s] = NoConversation]
  /\ messages' = IF mounted THEN <<WELCOME_MESSAGE>> ELSE messages
  /\ pvInflight' = IF mounted THEN [p \in DOMAIN pvInflight |-> EmptyPvPoll] ELSE pvInflight
  /\ UNCHANGED <<lastSave, debugVars, resolverVars, apiVars, floatingConfirmation, conversationId,
                 handlerTurn, reply, dispatched, persisted, mounted, canPersist,
                 currentTaskId, taskStatus, loading, userSaving, recommending, streaming,
                 chatInflight, addInflight, savedRecommendationIds, taskSt, taskRes,
                 placeholderIdx, chatTerminal, onCompleteCalls, addCalls>>

\* The Chat is mounted with a conversation and a user: the history effect
\* has requested the conversation.
InitHistory ==
  /\ ChatInit
  /\ canPersist
  /\ lastSave = [n |-> 0, list |-> <<>>]
  /\ DebugIdle
  /\ doc = <<>>
  /\ fragment = <<>>
  /\ resolved = <<>>
  /\ ApiIdle
  /\ floatingConfirmation = FALSE
  /\ conversationId = 1
  /\ handlerTurn = NoTurn
  /\ historyInflight = [NoHistory EXCEPT ![1] = 1]
  /\ reply = NoReply
  /\ dispatched = NotDispatched

NextDialogue ==
  \/ OnSend
  \/ SaveUserMessageDone
  \/ ReplyTask
  \/ ReplyText
  \/ StreamChunk
  \/ \E ok \in BOOLEAN : StreamEnd(ok)
  \/ \E isGuidanceCase \in BOOLEAN : ReplyConfirmation(isGuidanceCase)
  \/ ReplyStepsWithoutTask
  \/ \E list \in TaskResultLists : ReplyResults(list)
  \/ ReplyFailure
  \/ HandleConfirm
  \/ HandleNotSatisfied
  \/ HandlePreferenceConfirm
  \/ DismissButtons
  \/ HandlerUserMessageSaved
  \/ \E res \in Replies : HandlerReply(res)
  \/ HandlerFailure
  \/ \E s \in 1..MaxSaves : AddMessageOk(s)
  \/ \E s \in 1..MaxSaves : AddMessageFail(s)
  \/ Unmount

\* The dialogue, from the state in which the history is loaded.
SpecDialogue == Init /\ [][NextDialogue]_vars

\* The loading of the history, while the user sends messages and the
\* results returned for them are saved.
NextHistory ==
  \/ \E id \in ConversationIds : ConversationChanged(id)
  \/ \E s \in 1..MaxHistory, history \in Histories : HistoryResponse(s, history)
  \/ \E s \in 1..MaxHistory : HistoryFailure(s)
  \/ OnSend
  \/ SaveUserMessageDone
  \/ \E list \in TaskResultLists : ReplyResults(list)
  \/ ReplyFailure
  \/ \E s \in 1..MaxSaves : AddMessageOk(s)
  \/ \E s \in 1..MaxSaves : AddMessageFail(s)
  \/ Unmount

SpecHistory == InitHistory /\ [][NextHistory]_vars

(***************************************************************************)
(* The composer (Chat.tsx 931-966): the Send button is disabled while      *)
(* loading is true; the input is not, and Enter in it calls onSend.  Up to *)
(* MaxOverlap calls of onSend may be open at a time.                       *)
(***************************************************************************)
\* <button className="send" onClick={onSend} disabled={loading}>
SendClicked ==
  /\ ~loading
  /\ TurnsOpen < MaxOverlap
  /\ onSendStart

\* onKeyDown: Enter without Shift calls onSend.
EnterPressed ==
  /\ TurnsOpen < MaxOverlap
  /\ onSendStart

NextComposer ==
  \/ SendClicked
  \/ EnterPressed
  \/ SaveUserMessageDone
  \/ ReplyTask
  \/ ReplyText
  \/ StreamChunk
  \/ \E ok \in BOOLEAN : StreamEnd(ok)
  \/ \E isGuidanceCase \in BOOLEAN : ReplyConfirmation(isGuidanceCase)
  \/ ReplyStepsWithoutTask
  \/ \E list \in TaskResultLists : ReplyResults(list)
  \/ ReplyFailure
  \/ HandleConfirm
  \/ HandleNotSatisfied
  \/ HandlePreferenceConfirm
  \/ DismissButtons
  \/ HandlerUserMessageSaved
  \/ \E res \in Replies : HandlerReply(res)
  \/ HandlerFailure
  \/ \E s \in 1..MaxSaves : AddMessageOk(s)
  \/ \E s \in 1..MaxSaves : AddMessageFail(s)
  \/ Unmount

SpecComposer == Init /\ [][NextComposer]_vars

(***************************************************************************)
(* debugFetch (debugApi.ts 6-25).  The text of a response body is the      *)
(* sequence of its tokens; a piece of an error message is a run of         *)
(* characters.  Tokens and pieces are records of the same shape, so that   *)
(* the body text can be put into a message as it is.                       *)
(***************************************************************************)
Tok(t, v) == [t |-> t, v |-> v]
LBrace == Tok("punct", "{")
RBrace == Tok("punct", "}")
LBracket == Tok("punct", "[")
RBracket == Tok("punct", "]")
Colon == Tok("punct", ":")
Lit(s) == Tok("string", s)
Word(w) == Tok("word", w)
Chars(s) == Tok("chars", s)

\* The bodies a response may have: none, {}, an object with a detail that
\* is a string, an empty string, null, or a list of validation errors, an
\* object without detail, a JSON string, null, text that is not JSON, and
\* JSON that is cut off.
BodyTexts ==
  { <<>>,
    <<LBrace, RBrace>>,
    <<LBrace, Lit("detail"), Colon, Lit("Run not found"), RBrace>>,
    <<LBrace, Lit("detail"), Colon, Lit(""), RBrace>>,
    <<LBrace, Lit("detail"), Colon, Word("null"), RBrace>>,
    <<LBrace, Lit("detail"), Colon, LBracket, LBrace, Lit("msg"), Colon,
      Lit("field required"), RBrace, RBracket, RBrace>>,
    <<LBrace, Lit("runs"), Colon, LBracket, RBracket, RBrace>>,
    <<Lit("Run not found")>>,
    <<Word("null")>>,
    <<Word("<html>")>>,
    <<LBrace, Lit("detail"), Colon>> }

Statuses == {200, 204, 401, 404, 422, 500}

ReasonPhrase(status) ==
  CASE status = 200 -> "OK"
    [] status = 204 -> "No Content"
    [] status = 401 -> "Unauthorized"
    [] status = 404 -> "Not Found"
    [] status = 422 -> "Unprocessable Entity"
    [] OTHER -> "Internal Server Error"

\* What fetch may settle with: a rejection, or a response with a status,
\* a status text (empty over HTTP/2), and a body whose text can or cannot
\* be read.
Responses ==
  { [given |-> TRUE, rejected |-> TRUE] } \cup
  UNION { { [given |-> TRUE, rejected |-> FALSE, status |-> status, statusText |-> statusText,
             readable |-> readable, body |-> body] :
            statusText \in {"", ReasonPhrase(status)} } :
          status \in Statuses, readable \in BOOLEAN, body \in BodyTexts }

\* res.ok
resOk(res) == res.status >= 200 /\ res.status <= 299

\* JSON.parse(text), for texts of strings, null, true, false, objects of at
\* most one member and arrays of at most one element: the value, or a
\* failure (the SyntaxError).
RECURSIVE JSONparse(_)
JSONparse(text) ==
  LET n == Len(text)
      failure == [ok |-> FALSE, v |-> Null]
      value(v) == [ok |-> TRUE, v |-> v]
  IN
  IF n = 0 THEN failure
  ELSE IF n = 1
    THEN CASE text[1].t = "string" -> value(Str(<<text[1].v>>))
           [] text[1] = Word("null") -> value(Null)
           [] text[1] = Word("true") -> value(Bool(TRUE))
           [] text[1] = Word("false") -> value(Bool(FALSE))
           [] OTHER -> failure
  ELSE IF text[1] = LBrace /\ text[n] = RBrace
    THEN IF n = 2 THEN value(Obj(<<>>))
         ELSE IF n >= 5 /\ text[2].t = "string" /\ text[3] = Colon
           THEN LET member == JSONparse(SubSeq(text, 4, n - 1)) IN
                IF member.ok THEN value(Obj(text[2].v :> member.v)) ELSE failure
         ELSE failure
  ELSE IF text[1] = LBracket /\ text[n] = RBracket
    THEN IF n = 2 THEN value(Arr(<<>>))
         ELSE LET element == JSONparse(SubSeq(text, 2, n - 1)) IN
              IF element.ok THEN value(Arr(<<element.v>>)) ELSE failure
  ELSE failure

\* A value of the page's code: a JSON value, or a string given by its
\* text (the body text that parse() returns when it is not JSON).
JsonValue(v) == [json |-> TRUE, v |-> v, text |-> <<>>]
TextValue(text) == [json |-> FALSE, v |-> Null, text |-> text]

\* typeof x === 'string'
IsString(x) == ~x.json \/ x.v.k = "str"

\* parse(): try { return text ? JSON.parse(text) : {} } catch { return text }
parse(text) ==
  IF text = <<>> THEN JsonValue(Obj(<<>>))
  ELSE LET parsed == JSONparse(text) IN
       IF parsed.ok THEN JsonValue(parsed.v) ELSE TextValue(text)

\* String(v) in a template literal, as pieces: a string is itself, an
\* object is "[object Object]", an array is its elements joined by commas.
RECURSIVE StringOf(_)
StringOf(v) ==
  CASE v.k = "str" -> IF v.s = <<"">> THEN <<>> ELSE [i \in 1..Len(v.s) |-> Chars(v.s[i])]
    [] v.k = "null" -> <<Chars("null")>>
    [] v.k = "bool" -> <<Chars(IF v.b THEN "true" ELSE "false")>>
    [] v.k = "arr" -> IF v.e = <<>> THEN <<>> ELSE StringOf(v.e[1])
    [] OTHER -> <<Chars("[object Object]")>>

\* const detail = typeof parsed === 'string' ? parsed : parsed?.detail || text,
\* as the pieces `${detail}` puts into the message; no piece when detail
\* is falsy.  The body text is in the message as it was received.
detailOf(text) ==
  LET parsed == parse(text) IN
  IF ~parsed.json THEN parsed.text
  ELSE IF parsed.v.k = "str" THEN StringOf(parsed.v)
  ELSE IF Has(parsed.v, "detail") THEN StringOf(parsed.v.f["detail"])
  ELSE text

StatusDigits(status) ==
  CASE status = 200 -> "200"
    [] status = 204 -> "204"
    [] status = 401 -> "401"
    [] status = 404 -> "404"
    [] status = 422 -> "422"
    [] OTHER -> "500"

\* `HTTP ${res.status} ${res.statusText}${detail ? `: ${detail}` : ''}`
errorMessage(res, text) ==
  LET detail == detailOf(text) IN
  <<Chars("HTTP "), Chars(StatusDigits(res.status)), Chars(" "), Chars(res.statusText)>>
    \o (IF detail # <<>> THEN <<Chars(": ")>> \o detail ELSE <<>>)

ThrewError(message) == [done |-> TRUE, threw |-> TRUE, message |-> message, value |-> JsonValue(Null)]
ReturnedValue(value) == [done |-> TRUE, threw |-> FALSE, message |-> <<>>, value |-> value]

\* debugFetch, given what fetch settled with.
debugFetch(res) ==
  IF res.rejected THEN ThrewError(<<Chars("Failed to fetch")>>)
  ELSE LET text == IF res.readable THEN res.body ELSE <<>> IN
       IF ~resOk(res) THEN ThrewError(errorMessage(res, text)) ELSE ReturnedValue(parse(text))

InitFetch ==
  /\ ChatInit
  /\ lastSave = [n |-> 0, list |-> <<>>]
  /\ doc = <<>>
  /\ fragment = <<>>
  /\ resolved = <<>>
  /\ ApiIdle
  /\ DialogueIdle
  /\ PlayIdle
  /\ PageIdle
  /\ response \in Responses
  /\ settled = NotSettled

\* The call of debugFetch runs to its end.
DebugFetch ==
  /\ settled = NotSettled
  /\ settled' = debugFetch(response)
  /\ UNCHANGED <<chatVars, lastSave, resolverVars, apiVars, dialogueVars, playVars, pageVars, response>>

NextFetch == DebugFetch

SpecFetch == InitFetch /\ [][NextFetch]_vars

(***************************************************************************)
(* The API playground of the debug page (src/unnamed/part_000 276-284,     *)
(* 415-436, 587-674).  The texts of the three editors are sequences of     *)
(* tokens, as the bodies of debugFetch are.  An operation is given by what *)
(* the run action reads of it: its content type, its body schema and the   *)
(* names of its path parameters.                                           *)
(***************************************************************************)
Space == Tok("space", " ")

\* The texts an editor may hold: nothing, white space, {}, an object with
\* the member id, JSON that is cut off, a JSON string, and null.
EditorTexts ==
  { <<>>,
    <<Space>>,
    <<LBrace, RBrace>>,
    <<LBrace, Lit("id"), Colon, Lit("test"), RBrace>>,
    <<LBrace, Lit("id"), Colon>>,
    <<Lit("test")>>,
    <<Word("null")>> }

ApiOperations ==
  [sel : {TRUE}, requestContentType : {"", "application/json"},
   requestBodySchema : {Null, TypeObject}, pathParams : {<<>>, <<"id">>}]

\* !text.trim()
Blank(text) == \A i \in 1..Len(text) : text[i] = Space

\* selectedApiOp.requestContentType === 'application/json' && selectedApiOp.requestBodySchema
hasJsonBody(op) == op.requestContentType = "application/json" /\ ~Falsy(op.requestBodySchema)

\* pretty(pathDefaults): every path parameter with the default 'test'.
PathDefaultsText(op) ==
  IF op.pathParams = <<>> THEN <<LBrace, RBrace>>
  ELSE <<LBrace, Lit(op.pathParams[1]), Colon, Lit("test"), RBrace>>

\* An operation of the catalogue is selected, the first by the effect or
\* another by a click: the effect on selectedApiOp.id sets the defaults
\* of the editors and clears the result and the error.
SelectOperation(op) ==
  /\ op # selectedApiOp
  /\ selectedApiOp' = op
  /\ apiPathParamsText' = PathDefaultsText(op)
  /\ apiQueryParamsText' = <<LBrace, RBrace>>
  /\ apiBodyText' = IF hasJsonBody(op) THEN <<LBrace, RBrace>> ELSE <<>>
  /\ apiResult' = NoApiResult
  /\ apiPlaygroundError' = NoError
  /\ UNCHANGED <<chatVars, lastSave, fetchVars, pageVars, resolverVars, apiVars, dialogueVars,
                 apiRunning, apiInflight>>

\* The user edits one of the editors; the body editor is rendered for an
\* operation with a JSON body only.
EditPathParams(text) ==
  /\ selectedApiOp.sel
  /\ apiPathParamsText' = text
  /\ UNCHANGED <<chatVars, lastSave, fetchVars, pageVars, resolverVars, apiVars, dialogueVars,
                 selectedApiOp, apiQueryParamsText, apiBodyText, apiPlaygroundError,
                 apiResult, apiRunning, apiInflight>>

EditQueryParams(text) ==
  /\ selectedApiOp.sel
  /\ apiQueryParamsText' = text
  /\ UNCHANGED <<chatVars, lastSave, fetchVars, pageVars, resolverVars, apiVars, dialogueVars,
                 selectedApiOp, apiPathParamsText, apiBodyText, apiPlaygroundError,
                 apiResult, apiRunning, apiInflight>>

EditBody(text) ==
  /\ selectedApiOp.sel
  /\ hasJsonBody(selectedApiOp)
  /\ apiBodyText' = text
  /\ UNCHANGED <<chatVars, lastSave, fetchVars, pageVars, resolverVars, apiVars, dialogueVars,
                 selectedApiOp, apiPathParamsText, apiQueryParamsText, apiPlaygroundError,
                 apiResult, apiRunning, apiInflight>>

\* text.trim() ? JSON.parse(text) : {}
ParamsOf(text) == IF Blank(text) THEN [ok |-> TRUE, v |-> Obj(<<>>)] ELSE JSONparse(text)

\* name in params: a TypeError for null, false for an array.
MissingParam(op, params) ==
  \E i \in 1..Len(op.pathParams) : ~(params.k = "obj" /\ op.pathParams[i] \in DOMAIN params.f)

\* A try block that takes query params it cannot parse for {}.
thrownIgnoringQuery(op, pathText, queryText, bodyText) ==
  LET pathParams == ParamsOf(pathText) IN
  IF ~pathParams.ok THEN "SyntaxError"
  ELSE IF hasJsonBody(op) /\ ~Blank(bodyText) /\ ~JSONparse(bodyText).ok THEN "SyntaxError"
  ELSE IF ~Falsy(pathParams.v) /\ ~IsObjectType(pathParams.v)
    THEN "Path Params must be a JSON object"
  ELSE IF op.pathParams # <<>> /\ pathParams.v.k = "null" THEN "TypeError"
  ELSE IF MissingParam(op, pathParams.v) THEN "Missing required path param"
  ELSE "none"

\* What the try block of onRunApi throws before it calls fetch, or
\* "none" when it reaches fetch.
thrown(op, pathText, queryText, bodyText) ==
  LET pathParams == ParamsOf(pathText)
      queryParams == ParamsOf(queryText)
  IN
  IF ~pathParams.ok THEN "SyntaxError"
  ELSE IF ~queryParams.ok THEN "SyntaxError"
  ELSE IF hasJsonBody(op) /\ ~Blank(bodyText) /\ ~JSONparse(bodyText).ok THEN "SyntaxError"
  ELSE IF ~Falsy(pathParams.v) /\ ~IsObjectType(pathParams.v)
    THEN "Path Params must be a JSON object"
  ELSE IF ~Falsy(queryParams.v) /\ ~IsObjectType(queryParams.v)
    THEN "Query Params must be a JSON object"
  ELSE IF op.pathParams # <<>> /\ pathParams.v.k = "null" THEN "TypeError"
  ELSE IF MissingParam(op, pathParams.v) THEN "Missing required path param"
  ELSE "none"

\* onRunApi, by a click on Run API (disabled while apiRunning), up to the
\* await of fetch: when the try block throws, the catch block sets the
\* error and finally clears the running flag.
OnRunApi ==
  LET e == thrown(selectedApiOp, apiPathParamsText, apiQueryParamsText, apiBodyText) IN
  /\ selectedApiOp.sel
  /\ ~apiRunning
  /\ apiResult' = NoApiResult
  /\ IF e = "none"
       THEN /\ apiPlaygroundError' = NoError
            /\ apiRunning' = TRUE
            /\ apiInflight' = [sent |-> TRUE, withBody |-> hasJsonBody(selectedApiOp)]
       ELSE /\ apiPlaygroundError' = [set |-> TRUE, message |-> e]
            /\ apiRunning' = FALSE
            /\ UNCHANGED apiInflight
  /\ UNCHANGED <<chatVars, lastSave, fetchVars, pageVars, resolverVars, apiVars, dialogueVars,
                 selectedApiOp, apiPathParamsText, apiQueryParamsText, apiBodyText>>

\* fetch resolved: the result is stored; finally setApiRunning(false).
ApiResponse(isOk) ==
  /\ apiInflight.sent
  /\ apiInflight' = NoRequest
  /\ apiResult' = [has |-> TRUE, ok |-> isOk]
  /\ apiRunning' = FALSE
  /\ UNCHANGED <<chatVars, lastSave, fetchVars, pageVars, resolverVars, apiVars, dialogueVars,
                 selectedApiOp, apiPathParamsText, apiQueryParamsText, apiBodyText,
                 apiPlaygroundError>>

\* fetch rejected: the catch block sets the error; finally
\* setApiRunning(false).
ApiFailure ==
  /\ apiInflight.sent
  /\ apiInflight' = NoRequest
  /\ apiPlaygroundError' = [set |-> TRUE, message |-> "Failed to fetch"]
  /\ apiRunning' = FALSE
  /\ UNCHANGED <<chatVars, lastSave, fetchVars, pageVars, resolverVars, apiVars, dialogueVars,
                 selectedApiOp, apiPathParamsText, apiQueryParamsText, apiBodyText,
                 apiResult>>

NextPlayground ==
  \/ \E op \in ApiOperations : SelectOperation(op)
  \/ \E text \in EditorTexts : EditPathParams(text)
  \/ \E text \in EditorTexts : EditQueryParams(text)
  \/ \E text \in EditorTexts : EditBody(text)
  \/ OnRunApi
  \/ \E isOk \in BOOLEAN : ApiResponse(isOk)
  \/ ApiFailure

SpecPlayground == Init /\ [][NextPlayground]_vars

(***************************************************************************)
(* The runs of the debug page (src/unnamed/part_000 331-351, 373-400,      *)
(* 451-460, 502-514; DebugPage.tsx has the same code).  The page has one   *)
(* event loop: a handler up to its first await, and each continuation, is  *)
(* one step, and the effects whose dependencies the step changed run in    *)
(* it.  The error states of the login form and of the unit panel are not   *)
(* modelled.                                                               *)
(***************************************************************************)
MaxRuns == 2
MaxLoads == 2
MaxRefresh == 1
SeqMod == 2

RunIds == 1..MaxRuns

\* The list of runs listDebugRuns returns: every run, or none yet.
RunLists == { <<>>, [i \in 1..MaxRuns |-> i] }
UnitSets == { {}, {"unit"} }

\* The detail getBehaviorDebugRun returns for a run.
RunDetail(r) ==
  IF r \in serverDone
    THEN [has |-> TRUE, id |-> r, job_running |-> FALSE, status |-> "completed"]
    ELSE [has |-> TRUE, id |-> r, job_running |-> TRUE, status |-> "running"]

\* selectedRun?.job_running || ['queued', 'running'].includes(selectedRun?.status || '')
NonTerminal(run) == run.has /\ (run.job_running \/ run.status \in {"queued", "running"})

\* The dependencies of the tracker effect.
TrackerDeps(id, au, run) ==
  [selectedRunId |-> id, authed |-> au,
   job_running |-> IF run.has THEN (IF run.job_running THEN "true" ELSE "false") ELSE "undefined",
   status |-> IF run.has THEN run.status ELSE "undefined"]

\* The clean-up of the tracker effect sets stop for the calls of load()
\* the effect has made.
StopAll(ls) == [i \in 1..Len(ls) |-> [ls[i] EXCEPT !.stop = TRUE]]

RemoveAt(s, i) == SubSeq(s, 1, i - 1) \o SubSeq(s, i + 1, Len(s))

NextSeq == (fetchSeq + 1) % SeqMod

\* A step sets authed, selectedRunId and selectedRun to au, id and run, and
\* leaves ls in flight and rl as the loading flag: when a dependency of
\* the tracker effect has changed, its clean-up runs, and with a selected
\* run and a session the effect calls load().
Commit(au, id, run, ls, rl) ==
  /\ authed' = au
  /\ selectedRunId' = id
  /\ selectedRun' = run
  /\ IF TrackerDeps(id, au, run) # TrackerDeps(selectedRunId, authed, selectedRun)
       THEN IF id # NoRunId /\ au
              THEN /\ loads' = Append(StopAll(ls), [run |-> id, stop |-> FALSE])
                   /\ runLoading' = TRUE
                   /\ fetchSeq' = NextSeq
              ELSE /\ loads' = StopAll(ls)
                   /\ runLoading' = rl
                   /\ UNCHANGED fetchSeq
       ELSE /\ loads' = ls
            /\ runLoading' = rl
            /\ UNCHANGED fetchSeq

notPage == <<chatVars, lastSave, fetchVars, playVars, resolverVars, apiVars, dialogueVars>>

\* debugLogin resolved in onLogin: setAuthed(true), and refreshRuns(false)
\* is awaited; the effect on authed calls refreshRuns(false) and
\* refreshUnits().
Login ==
  /\ ~authed
  /\ runsInflight = NoRefresh
  /\ unitsInflight < MaxRefresh
  /\ Len(loads) < MaxLoads
  /\ Commit(TRUE, selectedRunId, selectedRun, loads, runLoading)
  /\ runsInflight' = [effect |-> 1, login |-> 1]
  /\ unitsInflight' = unitsInflight + 1
  /\ UNCHANGED <<notPage, runs, units, runError, explainLoading, explainInflight,
                 logoutInflight, serverDone>>

\* listDebugRuns resolved in refreshRuns(false): the runs are set and the
\* first of them is selected.  onLogin then awaits refreshUnits().
RefreshRunsDone(caller, list) ==
  /\ runsInflight[caller] > 0
  /\ Len(loads) < MaxLoads
  /\ caller = "login" => unitsInflight < MaxRefresh
  /\ runsInflight' = [runsInflight EXCEPT ![caller] = @ - 1]
  /\ runs' = list
  /\ Commit(authed, IF list # <<>> THEN list[1] ELSE selectedRunId, selectedRun, loads,
            runLoading)
  /\ unitsInflight' = IF caller = "login" THEN unitsInflight + 1 ELSE unitsInflight
  /\ UNCHANGED <<notPage, units, runError, explainLoading, explainInflight,
                 logoutInflight, serverDone>>

\* listDebugRuns rejected: the effect's catch sets the run error, the
\* catch of onLogin the error of the login form.
RefreshRunsFailed(caller) ==
  /\ runsInflight[caller] > 0
  /\ runsInflight' = [runsInflight EXCEPT ![caller] = @ - 1]
  /\ runError' = IF caller = "effect"
                   THEN [set |-> TRUE, message |-> "Failed to load runs"] ELSE runError
  /\ UNCHANGED <<notPage, authed, runs, units, selectedRunId, selectedRun, runLoading,
                 explainLoading, loads, fetchSeq, explainInflight, unitsInflight,
                 logoutInflight, serverDone>>

\* listDebugUnits settled in refreshUnits: resolved, the units are set.
RefreshUnitsDone(list) ==
  /\ unitsInflight > 0
  /\ unitsInflight' = unitsInflight - 1
  /\ units' = list
  /\ UNCHANGED <<notPage, authed, runs, selectedRunId, selectedRun, runLoading, runError,
                 explainLoading, loads, fetchSeq, explainInflight, runsInflight,
                 logoutInflight, serverDone>>

RefreshUnitsFailed ==
  /\ unitsInflight > 0
  /\ unitsInflight' = unitsInflight - 1
  /\ UNCHANGED <<notPage, authed, runs, units, selectedRunId, selectedRun, runLoading,
                 runError, explainLoading, loads, fetchSeq, explainInflight, runsInflight,
                 logoutInflight, serverDone>>

\* A click on a run of the list: setSelectedRunId(run.id).
SelectRun(id) ==
  /\ authed
  /\ \E i \in 1..Len(runs) : runs[i] = id
  /\ id # selectedRunId
  /\ Len(loads) < MaxLoads
  /\ Commit(authed, id, selectedRun, loads, runLoading)
  /\ UNCHANGED <<notPage, runs, units, runError, explainLoading, explainInflight,
                 runsInflight, unitsInflight, logoutInflight, serverDone>>

\* The interval of the tracker effect fires while the run last fetched is
\* not terminal: load().
Tick ==
  /\ authed
  /\ selectedRunId # NoRunId
  /\ NonTerminal(selectedRun)
  /\ Len(loads) < MaxLoads
  /\ loads' = Append(loads, [run |-> selectedRunId, stop |-> FALSE])
  /\ runLoading' = TRUE
  /\ fetchSeq' = NextSeq
  /\ UNCHANGED <<notPage, authed, runs, units, selectedRunId, selectedRun, runError,
                 explainLoading, explainInflight, runsInflight, unitsInflight,
                 logoutInflight, serverDone>>

\* getBehaviorDebugRun resolved in load(): nothing after stop; otherwise
\* the run is set, the error cleared and the loading flag cleared.
LoadResponse(i) ==
  /\ i \in 1..Len(loads)
  /\ IF loads[i].stop
       THEN /\ loads' = RemoveAt(loads, i)
            /\ UNCHANGED <<authed, selectedRunId, selectedRun, runLoading, runError, fetchSeq>>
       ELSE /\ Commit(authed, selectedRunId, RunDetail(loads[i].run), RemoveAt(loads, i), FALSE)
            /\ runError' = NoError
  /\ UNCHANGED <<notPage, runs, units, explainLoading, explainInflight, runsInflight,
                 unitsInflight, logoutInflight, serverDone>>

\* getBehaviorDebugRun rejected in load(): nothing after stop; otherwise
\* the error is set and the loading flag cleared.
LoadFailure(i) ==
  /\ i \in 1..Len(loads)
  /\ loads' = RemoveAt(loads, i)
  /\ IF loads[i].stop
       THEN UNCHANGED <<runLoading, runError>>
       ELSE /\ runError' = [set |-> TRUE, message |-> "Failed to load run"]
            /\ runLoading' = FALSE
  /\ UNCHANGED <<notPage, authed, runs, units, selectedRunId, selectedRun, explainLoading,
                 fetchSeq, explainInflight, runsInflight, unitsInflight, logoutInflight,
                 serverDone>>

\* runExplain, by a click on the explain button (disabled while
\* explainLoading), up to the await of explainBehaviorDebugRun.
RunExplain ==
  /\ authed
  /\ selectedRunId # NoRunId
  /\ ~explainLoading
  /\ explainLoading' = TRUE
  /\ explainInflight' = [run |-> selectedRunId, phase |-> "explain"]
  /\ UNCHANGED <<notPage, authed, runs, units, selectedRunId, selectedRun, runLoading,
                 runError, loads, fetchSeq, runsInflight, unitsInflight, logoutInflight,
                 serverDone>>

\* explainBehaviorDebugRun resolved: getBehaviorDebugRun is awaited.
ExplainDone ==
  /\ explainInflight.phase = "explain"
  /\ explainInflight' = [explainInflight EXCEPT !.phase = "refresh"]
  /\ UNCHANGED <<notPage, authed, runs, units, selectedRunId, selectedRun, runLoading,
                 runError, explainLoading, loads, fetchSeq, runsInflight, unitsInflight,
                 logoutInflight, serverDone>>

\* The refresh of runExplain resolved: setSelectedRun(refreshed); finally
\* setExplainLoading(false).
ExplainRefreshed ==
  /\ explainInflight.phase = "refresh"
  /\ Len(loads) < MaxLoads
  /\ explainInflight' = NoExplain
  /\ Commit(authed, selectedRunId, RunDetail(explainInflight.run), loads, runLoading)
  /\ explainLoading' = FALSE
  /\ UNCHANGED <<notPage, runs, units, runError, runsInflight, unitsInflight,
                 logoutInflight, serverDone>>

\* Either request of runExplain rejected: the catch sets the run error;
\* finally setExplainLoading(false).
ExplainFailed ==
  /\ explainInflight.phase # "idle"
  /\ explainInflight' = NoExplain
  /\ runError' = [set |-> TRUE, message |-> "LLM explanation failed"]
  /\ explainLoading' = FALSE
  /\ UNCHANGED <<notPage, authed, runs, units, selectedRunId, selectedRun, runLoading,
                 loads, fetchSeq, runsInflight, unitsInflight, logoutInflight, serverDone>>

\* onLogout, by a click on Logout, up to the await of debugLogout.
Logout ==
  /\ authed
  /\ ~logoutInflight
  /\ logoutInflight' = TRUE
  /\ UNCHANGED <<notPage, authed, runs, units, selectedRunId, selectedRun, runLoading,
                 runError, explainLoading, loads, fetchSeq, explainInflight, runsInflight,
                 unitsInflight, serverDone>>

\* debugLogout settled, resolved or rejected: the finally block clears the
\* session, the selected run, the runs and the units.
LogoutSettled ==
  /\ logoutInflight
  /\ logoutInflight' = FALSE
  /\ Commit(FALSE, selectedRunId, NoRun, loads, runLoading)
  /\ runs' = <<>>
  /\ units' = {}
  /\ UNCHANGED <<notPage, runError, explainLoading, explainInflight, runsInflight,
                 unitsInflight, serverDone>>

\* The backend finishes a run.
RunFinishes(r) ==
  /\ r \notin serverDone
  /\ serverDone' = serverDone \cup {r}
  /\ UNCHANGED <<notPage, authed, runs, units, selectedRunId, selectedRun, runLoading,
                 runError, explainLoading, loads, fetchSeq, explainInflight, runsInflight,
                 unitsInflight, logoutInflight>>

NextPage ==
  \/ Login
  \/ \E caller \in {"effect", "login"}, list \in RunLists : RefreshRunsDone(caller, list)
  \/ \E caller \in {"effect", "login"} : RefreshRunsFailed(caller)
  \/ \E list \in UnitSets : RefreshUnitsDone(list)
  \/ RefreshUnitsFailed
  \/ \E id \in RunIds : SelectRun(id)
  \/ Tick
  \/ \E i \in 1..MaxLoads : LoadResponse(i)
  \/ \E i \in 1..MaxLoads : LoadFailure(i)
  \/ RunExplain
  \/ ExplainDone
  \/ ExplainRefreshed
  \/ ExplainFailed
  \/ Logout
  \/ LogoutSettled
  \/ \E r \in RunIds : RunFinishes(r)

SpecPage == Init /\ [][NextPage]_vars

(***************************************************************************)
(* Claims about the task polling of the chat.                              *)
(***************************************************************************)
\* A Chat request was started in this step in slot s.
ChatRequestStarted(s) == chatInflight[s] = EmptyPoll /\ chatInflight'[s] # EmptyPoll
\* The response (or failure) in Chat slot s was handled in this step.
ChatResponseHandled(s) == chatInflight[s] # EmptyPoll /\ chatInflight'[s] = EmptyPoll
\* A ProcessingView request was started in this step in slot s.
PvRequestStarted(s) == pvInflight[s] = EmptyPvPoll /\ pvInflight'[s] # EmptyPvPoll
\* The response (or failure) in ProcessingView slot s was handled in this
\* step by the view, which stays mounted (an unmounted view's requests are
\* dropped instead).
PvResponseHandled(s) ==
  /\ pvInflight[s] # EmptyPvPoll /\ pvInflight'[s] = EmptyPvPoll
  /\ mounted'
  /\ messages'[pvInflight[s].idx].kind = "pv"
\* The view in message i polls after this step.
PvPollingActiveAfter(i) ==
  mounted' /\ i \in 1..Len(messages') /\ messages'[i].kind = "pv"

\* C1: the recommendation result of a completed task is persisted at most
\* once: at most one addMessage request is ever sent for it, whichever of
\* the two save paths (onComplete of the ProcessingView, the fallback of
\* Chat's polling loop) runs first and however the two interleave.
C1_PersistedAtMostOnce == \A t \in Tasks : addCalls[t] <= 1

\* C3: for each task id, the completion callback onComplete fires at most
\* once, however many later polls report completed again and however often
\* the view is re-rendered with a new onComplete.
C3_OnCompleteOnce == \A t \in Tasks : onCompleteCalls[t] <= 1

C5_PvPollingStops ==
  [][ \A s \in 1..MaxPvInflight :
        PvRequestStarted(s) =>
          LET m == messages[pvInflight'[s].idx] IN
          ~(Terminal(m.st) /\ m.stTask = m.task)
    ]_vars

\* C6: once a terminal response has replaced a task's placeholder by the
\* result or error rendering, no later response turns that message back
\* into a processing view.
C6_TerminalStaysApplied ==
  [][ \A t \in Tasks :
        ( /\ placeholderIdx[t] # 0
          /\ chatTerminal[t]
          /\ messages[placeholderIdx[t]].kind \in {"results", "taskError"} )
        => messages'[placeholderIdx[t]].kind # "pv"
    ]_vars

\* C7: a getTaskStatus response for a task that is no longer the current
\* task changes neither taskStatus nor the message list.
C7_StaleResponseDiscarded ==
  [][ \A s \in 1..MaxInflight :
        (ChatResponseHandled(s) /\ chatInflight[s].task # currentTaskId)
        => UNCHANGED <<taskStatus, messages>>
    ]_vars

\* C8: applying a poll result keeps the length of the message list and
\* changes no message other than the placeholder of the polled task.
C8_OnlyPlaceholderChanges ==
  [][ \A s \in 1..MaxInflight :
        ChatResponseHandled(s) =>
          /\ Len(messages') = Len(messages)
          /\ \A i \in 1..Len(messages) :
               i # placeholderIdx[chatInflight[s].task] => messages'[i] = messages[i]
    ]_vars

\* C9: a failed getTaskStatus request of either polling loop changes
\* neither the message list nor the current task id nor the task status,
\* and leaves the loop polling; the error rendering of a task appears only
\* when a response whose status is error is applied.
C9_PollFailureIsSilent ==
  [][ /\ \A s \in 1..MaxInflight :
           (ChatResponseHandled(s) /\ chatInflight[s].st = "failed") =>
             /\ UNCHANGED <<messages, currentTaskId, taskStatus>>
             /\ ChatPollingActive' = ChatPollingActive
      /\ \A s \in 1..MaxPvInflight :
           (PvResponseHandled(s) /\ pvInflight[s].st = "failed") =>
             /\ UNCHANGED <<messages, currentTaskId, taskStatus>>
             /\ PvPollingActiveAfter(pvInflight[s].idx)
      /\ \A i \in 1..Len(messages') :
           ( /\ messages'[i].kind = "taskError"
             /\ (i > Len(messages) \/ messages[i].kind # "taskError") )
           => \E s \in 1..MaxInflight :
                ChatResponseHandled(s) /\ chatInflight[s].st = "error"
      /\ \A i \in 1..Len(messages') :
           ( /\ messages'[i].kind = "pv" /\ messages'[i].st = "error"
             /\ (i > Len(messages) \/ messages[i].st # "error") )
           => \E s \in 1..MaxPvInflight :
                PvResponseHandled(s) /\ pvInflight[s].st = "error"
    ]_vars

\* C9 witness: while a task is polled and its placeholder shows the
\* processing view, a request of Chat's loop and a request of the view
\* have both failed and their failures are about to be handled.
C9_Witness ==
  /\ ChatPollingActive
  /\ messages[Len(messages)].kind = "pv"
  /\ \E s \in 1..MaxInflight : chatInflight[s].st = "failed"
  /\ \E s \in 1..MaxPvInflight : pvInflight[s].st = "failed"

(***************************************************************************)
(* Claims about saveRecommendationResult.                                  *)
(***************************************************************************)
\* This step is a call of saveRecommendationResult with list.
SaveCalled(list) == lastSave'.n = lastSave.n + 1 /\ lastSave'.list = list

KeySet(list) == {RestaurantKey(list[i]) : i \in 1..Len(list)}

KeyCount(list, k) == Cardinality({i \in 1..Len(list) : RestaurantKey(list[i]) = k})

\* The same identifiers, each as many times.
SameKeys(p, q) == \A k \in KeySet(p) \cup KeySet(q) : KeyCount(p, k) = KeyCount(q, k)

\* The call sent nothing and marked nothing.
SaveIsNoOp == UNCHANGED <<addInflight, savedRecommendationIds, persisted>>

\* C2 as stated: a call of saveRecommendationResult with a non-empty list
\* whose set of restaurant identifiers is that of a list an earlier call
\* has saved successfully is a no-op.
C2_SameIdSetIsNoOp ==
  [][ \A list \in RestaurantLists :
        ( /\ SaveCalled(list) /\ Len(list) > 0
          /\ \E p \in persisted : KeySet(p) = KeySet(list) )
        => SaveIsNoOp
    ]_vars

\* C2 amended: a call of saveRecommendationResult with a non-empty list
\* that has the same restaurant identifiers, each as many times, as a list
\* an earlier call has saved successfully, in any order, is a no-op: no
\* addMessage request, no onMessageAdded, the saved set unchanged.
C2_SameIdsIsNoOp ==
  [][ \A list \in RestaurantLists :
        ( /\ SaveCalled(list) /\ Len(list) > 0
          /\ \E p \in persisted : SameKeys(p, list) )
        => SaveIsNoOp
    ]_vars

\* C2 witness: the list a, b was saved successfully by the first call, the
\* second call was made with b, a, and no request is in flight.
C2_Witness ==
  /\ canPersist
  /\ persisted = {<<Ra, Rb>>}
  /\ lastSave = [n |-> 2, list |-> <<Rb, Ra>>]
  /\ savedRecommendationIds = {"a,b"}
  /\ \A s \in 1..MaxSaves : addInflight[s] = EmptyAdd

(***************************************************************************)
(* Claims about the schema resolver.                                       *)
(***************************************************************************)
\* C10: resolveSchema terminates on every fragment and document, also when
\* references form a cycle: the recursion never exceeds the stack, and a
\* reference that is already in the visited set resolves to the
\* placeholder {type: 'object'} without a further call.
C10_ResolveTerminates ==
  /\ resolved.done => resolved.ok
  /\ \A ref \in SchemaRefs :
       resolveSchema(Obj("$ref" :> Str(ref)), doc, {ref}, 0) = Returned(TypeObject, {ref})

\* C10 witness: A refers to B, B refers to A, and the fragment refers to
\* A; the resolution has returned the placeholder.
C10_Witness ==
  /\ doc = Document(RefTo("B"), RefTo("A"))
  /\ fragment = RefTo("A")
  /\ resolved = [done |-> TRUE, ok |-> TRUE, v |-> TypeObject]

LastWith(parts, key) ==
  parts[CHOOSE i \in 1..Len(parts) :
          /\ key \in DOMAIN parts[i].f
          /\ \A j \in (i + 1)..Len(parts) : key \notin DOMAIN parts[j].f]

\* The keys of all members, each with the value of the right-most member
\* that has it.
RightMostWins(parts) ==
  [key \in UNION {DOMAIN parts[i].f : i \in 1..Len(parts)} |-> LastWith(parts, key).f[key]]

\* C12: an allOf whose members carry no reference resolves to the shallow
\* merge of its members taken left to right: every key of every member,
\* with the value of the right-most member that has the key.
C12_AllOfRightMostWins ==
  (resolved.done /\ fragment \in PlainAllOfs) =>
    /\ resolved.ok
    /\ resolved.v = Obj(RightMostWins(fragment.f["allOf"].e))

\* C12 witness: allOf [{a: 1}, {a: 2, b: 3}] has resolved to {a: 2, b: 3}.
C12_Witness ==
  /\ fragment = AllOf(<<Obj("a" :> Num(1)), Obj("a" :> Num(2) @@ "b" :> Num(3))>>)
  /\ resolved = [done |-> TRUE, ok |-> TRUE, v |-> Obj("a" :> Num(2) @@ "b" :> Num(3))]

\* The merge, left to right, of the members of parts each resolved on its
\* own, with a visited set of its own.
RECURSIVE MergedAlone(_, _)
MergedAlone(parts, acc) ==
  IF parts = <<>> THEN acc
  ELSE MergedAlone(Tail(parts),
                   SpreadOrEmpty(resolveSchema(Head(parts), doc, {}, 0).v) @@ acc)

\* C13: every member of an allOf is resolved independently of the other
\* members: the allOf resolves to the merge of its members each resolved
\* on its own, so a $ref carried by two members is fully resolved in both.
C13_AllOfMembersIndependent ==
  ( /\ resolved.done
    /\ fragment.k = "obj" /\ "allOf" \in DOMAIN fragment.f )
  => resolved.v = Obj(MergedAlone(fragment.f["allOf"].e, <<>>))

(***************************************************************************)
(* Claims about the operation catalogue of the debug page.                 *)
(***************************************************************************)
OperationsBuilt == operations # NotBuilt

OperationIds == [i \in 1..Len(operations.list) |-> operations.list[i].id]

\* C14: the catalogue lists every operation of the document once, ordered
\* by path and, within one path, by upper-cased method name.
C14_SortedByPathThenMethod ==
  OperationsBuilt =>
    LET list == operations.list IN
    /\ \A i, j \in 1..Len(list) :
         i < j =>
           \/ LocaleRank(list[i].path) < LocaleRank(list[j].path)
           \/ /\ list[i].path = list[j].path
              /\ LocaleRank(list[i].method) < LocaleRank(list[j].method)
    /\ {<<list[i].path, list[i].method>> : i \in 1..Len(list)} =
         UNION {{<<path, ToUpperCase(method)>> :
                   method \in {m \in MethodNames : m \in DOMAIN doc.f["paths"].f[path].f}} :
                  path \in DOMAIN doc.f["paths"].f}

\* C14: the document lists /b with GET before /a with POST and GET, and the
\* catalogue is /a GET, /a POST, /b GET.
C14_Witness ==
  /\ OperationsBuilt
  /\ keyOrder.paths = <<"/b", "/a">>
  /\ OperationIds = <<"GET /a", "POST /a", "GET /b">>

\* The parameter objects the document declares for an operation of the
\* catalogue: those of its path item, then those of its own object.
DeclaredParams(op) ==
  LET pathItem == doc.f["paths"].f[op.path]
      method == CHOOSE m \in MethodNames : ToUpperCase(m) = op.method
  IN pathItem.f["parameters"].e \o pathItem.f[method].f["parameters"].e

\* The name a declared parameter object has once its $ref is followed.
DeclaredName(param) ==
  IF "$ref" \in DOMAIN param.f
    THEN IF param = ParamRef("P") THEN "id" ELSE ""
    ELSE param.f["name"].s[1]

DeclaredNames(op) == [i \in 1..Len(DeclaredParams(op)) |-> DeclaredName(DeclaredParams(op)[i])]

ListedNames(op) == [i \in 1..Len(op.parameters) |-> op.parameters[i].name]

\* C15, as stated: the parameter list of every operation has one entry for
\* every declared parameter, path-level first, then operation-level, each
\* in document order.
C15_AllParametersInOrder ==
  OperationsBuilt =>
    \A i \in 1..Len(operations.list) :
      ListedNames(operations.list[i]) = DeclaredNames(operations.list[i])

\* C15, amended: the parameter list of every operation has one entry for
\* every declared parameter that has a name once its $ref is followed,
\* path-level first, then operation-level, each in document order, a name
\* declared twice listed twice.
C15_NamedParametersInOrder ==
  OperationsBuilt =>
    \A i \in 1..Len(operations.list) :
      ListedNames(operations.list[i]) =
        SelectSeq(DeclaredNames(operations.list[i]), LAMBDA name : name # "")

\* C15: an operation whose path item and whose own object both declare the
\* parameter id lists it twice.
C15_Witness ==
  /\ OperationsBuilt
  /\ \E i \in 1..Len(operations.list) :
       /\ DeclaredNames(operations.list[i]) = <<"id", "id">>
       /\ ListedNames(operations.list[i]) = <<"id", "id">>

\* C16: an operation has a request body schema only when its selected
\* content type is application/json; when the request body offers only
\* other content types the schema is null and the selected content type is
\* the first key of the content map.
C16_OnlyJsonHasBodySchema ==
  OperationsBuilt =>
    \A i \in 1..Len(operations.list) :
      LET op == operations.list[i] IN
      /\ op.requestBodySchema # Null => op.requestContentType = "application/json"
      /\ (keyOrder.content # <<>> /\
          \A j \in 1..Len(keyOrder.content) : keyOrder.content[j] # "application/json")
           => /\ op.requestBodySchema = Null
              /\ op.requestContentType = keyOrder.content[1]

ComposedOperation == operations.list[composite.op]

Composed == composite # NotBuilt /\ composite.op # 0

\* The names of the required query parameters of an operation of the catalogue.
RequiredQueryNames(op) ==
  {op.parameters[i].name :
     i \in {j \in 1..Len(op.parameters) :
              op.parameters[j].in = "query" /\ op.parameters[j].required}}

\* C17: the query_params of the composite schema has the required query
\* parameters of the operation as its properties and no other, and the
\* composite schema has no query_params when no query parameter is required.
C17_OnlyRequiredQueryParams ==
  Composed =>
    LET properties == composite.schema.f["properties"].f IN
    IF RequiredQueryNames(ComposedOperation) = {}
      THEN "query_params" \notin DOMAIN properties
      ELSE /\ "query_params" \in DOMAIN properties
           /\ DOMAIN properties["query_params"].f["properties"].f =
                RequiredQueryNames(ComposedOperation)

(***************************************************************************)
(* Claims about the dialogue of the chat.                                  *)
(***************************************************************************)
\* The reply kind that comes first in the order llm_reply,
\* confirmation_request, thinking_steps, restaurants.
FirstKind(res) ==
  IF res.llm_reply THEN "llm_reply"
  ELSE IF res.confirmation_request THEN "confirmation_request"
  ELSE IF res.thinking_steps # "absent" THEN "thinking_steps"
  ELSE "restaurants"

\* C18: every entry point handles a reply as the first kind it carries in
\* the order llm_reply, confirmation_request, thinking_steps, restaurants
\* (showing the preferences with the reply text, or showing nothing for an
\* empty list of restaurants, is still that kind).
C18_SamePrecedence ==
  dispatched # NotDispatched =>
    \/ dispatched.branch = FirstKind(reply.res)
    \/ dispatched.branch = "llm_reply_guidance" /\ FirstKind(reply.res) = "llm_reply"
    \/ dispatched.branch = "none" /\ FirstKind(reply.res) = "restaurants"

\* C19: whenever the floating buttons are displayed, the message they are
\* displayed under is a confirmation request outside the guidance case.
C19_ButtonsOnlyUnderConfirmation ==
  ButtonsDisplayed => messages[Len(messages)].kind = "confirm"

\* A response of getConversation is applied in this step.
HistoryResponseHandled(s) ==
  historyInflight[s] # NoConversation /\ historyInflight'[s] = NoConversation

\* C20: a response of getConversation for a conversation that is not the
\* current one, or one that arrives after the Chat unmounted, changes
\* neither the messages nor the set of saved fingerprints.
C20_StaleHistoryDiscarded ==
  [][\A s \in 1..MaxHistory :
       (HistoryResponseHandled(s) /\ (historyInflight[s] # conversationId \/ ~mounted))
         => UNCHANGED <<messages, savedRecommendationIds>>]_vars

\* C21: while the conversation id stays the same, a step never shortens
\* the list of messages and never removes or replaces a message of the
\* user that is in it.
C21_AppendOnly ==
  [][conversationId' = conversationId =>
       /\ Len(messages') >= Len(messages)
       /\ \A i \in 1..Len(messages) :
            messages[i].role = "user" => (i <= Len(messages') /\ messages'[i] = messages[i])]_vars

\* C26: the fingerprints of two results that are being saved are the same
\* whenever the results have the same set of restaurant identifiers, the
\* empty set included.
C26_FingerprintByContent ==
  \A s, t \in 1..MaxSaves :
    ( /\ addInflight[s].used /\ addInflight[t].used
      /\ KeySet(addInflight[s].list) = KeySet(addInflight[t].list) )
    => addInflight[s].fp = addInflight[t].fp

\* The recommend requests that are outstanding.
RecommendsInFlight ==
  recommending + (IF handlerTurn.phase = "recommending" THEN 1 ELSE 0)

\* C27: at most one recommend request is outstanding at a time.
C27_OneTurnInFlight == RecommendsInFlight <= 1


\* ---- Claims about the outcome of a user turn ----

\* recommend has returned to onSend, or to one of the confirmation handlers,
\* in this step.
RecommendReturned ==
  \/ recommending' < recommending
  \/ handlerTurn.phase = "recommending" /\ handlerTurn' = NoTurn

\* C28: every user turn ends with a visible outcome: in the step in which
\* recommend returns to the mounted Chat exactly one assistant message is
\* appended (the reply, the confirmation, the processing placeholder, the
\* results or the error message), and unless a stream has been started
\* loading is false afterwards.
C28_TurnEndsWithAssistantMessage ==
  [][ (mounted /\ RecommendReturned) =>
        /\ Len(messages') = Len(messages) + 1
        /\ messages'[Len(messages')].role = "assistant"
        /\ SubSeq(messages', 1, Len(messages)) = messages
        /\ streaming' = streaming => ~loading' ]_vars


\* ---- Claims about the saved fingerprints of a conversation ----

\* The response handled in this step settles the history request of the
\* current conversation, which is not the one the Chat was mounted with: no
\* other request is in flight.
HistorySettles(s) ==
  /\ HistoryResponseHandled(s)
  /\ historyInflight[s] = conversationId
  /\ conversationId # 1
  /\ \A t \in 1..MaxHistory : historyInflight'[t] = NoConversation

\* C30: when the history request of a conversation the Chat has changed to
\* settles, the set of saved fingerprints is exactly the set of the
\* fingerprints of the recommendations of the history that is shown: the
\* empty set when the welcome message is shown for an empty history or for
\* a failed load.
C30_SavedIdsOfCurrentConversation ==
  [][\A s \in 1..MaxHistory :
       (mounted /\ HistorySettles(s)) =>
         \E history \in Histories, ts \in Timestamps :
           /\ messages' = IF history = <<>> THEN <<WELCOME_MESSAGE>> ELSE historyMessages(history)
           /\ savedRecommendationIds' = savedIds(history, ts)]_vars


\* ---- Claims about debugFetch ----

\* sub occurs in s as a run of consecutive elements.
Contains(s, sub) ==
  \E i \in 0..Len(s) : i + Len(sub) <= Len(s) /\ SubSeq(s, i + 1, i + Len(sub)) = sub

\* The body of the response is a JSON object with a detail member.
HasDetailField(res) ==
  /\ res.readable
  /\ JSONparse(res.body).ok
  /\ JSONparse(res.body).v.k = "obj"
  /\ "detail" \in DOMAIN JSONparse(res.body).v.f

\* The detail member as the body gives it: the characters of a string,
\* the text of any other value.
DetailGiven(res) ==
  LET v == JSONparse(res.body).v.f["detail"] IN
  IF v.k = "str" THEN StringOf(v) ELSE SubSeq(res.body, 4, Len(res.body) - 1)

\* C25: for a response that is not 2xx debugFetch throws, the message
\* starts with "HTTP <status>", and the message carries the detail member
\* of a JSON body that has one; for a 2xx response it returns the parsed
\* body and does not throw.
C25_NonOkThrowsWithDetail ==
  (settled.done /\ ~response.rejected) =>
    IF resOk(response)
      THEN /\ ~settled.threw
           /\ settled.value = parse(IF response.readable THEN response.body ELSE <<>>)
      ELSE /\ settled.threw
           /\ SubSeq(settled.message, 1, 2) = <<Chars("HTTP "), Chars(StatusDigits(response.status))>>
           /\ HasDetailField(response) => Contains(settled.message, DetailGiven(response))


\* ---- Claims about the API playground ----

\* JSON.parse(text) throws.
NotValidJson(text) == ~JSONparse(text).ok

\* One of the texts the run action reads is such that bad(text): the path
\* params, the query params, or the body of an operation with a JSON body.
SomeEditorText(bad(_)) ==
  \/ bad(apiPathParamsText)
  \/ bad(apiQueryParamsText)
  \/ hasJsonBody(selectedApiOp) /\ bad(apiBodyText)

\* The run action has sent no request, has set the local error, has stored
\* no result, and the running flag is false.
RunRefused ==
  /\ apiInflight' = NoRequest
  /\ apiPlaygroundError'.set
  /\ apiResult' = NoApiResult
  /\ ~apiRunning'

Unparsable(text) == ~Blank(text) /\ NotValidJson(text)

displayedRun == <<selectedRun, runError, runLoading>>

\* C22: a response that belongs to a run other than the selected one is
\* not written into the displayed run state: neither the settling of a
\* call of load() for that run nor the settling of a request of runExplain
\* started for it changes selectedRun, runError or runLoading.
C22_StaleRunResponsesDiscarded ==
  [][ /\ \A i \in 1..MaxLoads :
           ( /\ i <= Len(loads)
             /\ loads[i].run # selectedRunId
             /\ LoadResponse(i) \/ LoadFailure(i) )
           => UNCHANGED displayedRun
      /\ ( /\ explainInflight.phase # "idle"
           /\ explainInflight.run # selectedRunId
           /\ ExplainRefreshed \/ ExplainFailed )
         => UNCHANGED displayedRun ]_vars

\* C23: no step that leaves the selection as it was and ends with a
\* terminal run of the selected id as the run last fetched calls load().
C23_NoFetchOfTerminalRun ==
  [][ ( /\ selectedRunId' = selectedRunId
        /\ selectedRun'.has
        /\ selectedRun'.id = selectedRunId
        /\ ~NonTerminal(selectedRun') )
      => fetchSeq' = fetchSeq ]_vars

\* C29: without a session the page holds no run and no unit data: the
\* runs and the units are empty and no run detail is held.
C29_NoDataWithoutSession ==
  ~authed => (runs = <<>> /\ units = {} /\ selectedRun = NoRun)

====
